---- MODULE Spec2Model ----
(***************************************************************************)
(* Model of the SYSLOG client of hlandau/slogkit                           *)
(* (slogsyslog/syslog/syslog.go, protocol.go): the Logger's connection     *)
(* manager (ensureConn / getNewConn / destroyConn), Write and Close, run   *)
(* by concurrent callers that share one Logger, with a clock that moves    *)
(* between any two steps and an environment that decides whether each dial *)
(* and each transport write succeeds.                                      *)
(***************************************************************************)
EXTENDS Integers, Sequences, FiniteSets, TLC

\* ---------------------------------------------------------------- bounds
NumProcs == 2
MaxCalls == 3
MaxTime == 2
InitialDelay == 1
MaxDelay == 2
MaxTriesOpt == 1

Procs == 1..NumProcs

\* ------------------------------------------------------------ the state
VARIABLES
  w,                  \* Logger.w: id of the handle held, 0 for nil
  closed,             \* Logger.closed
  reconnectStartTime, \* Logger.reconnectStartTime, 0 for the zero time
  cfg,                \* Logger.cfg: Protocol, Framing, BOMMode, DialFunc ("nil" or "custom")
  connTargets,        \* Logger.connTargets: the networks of the candidates
  backoff,            \* Logger.cfg.ConnectBackoff: MaxTries, CurrentTry
  mutex,              \* Logger.mutex: the caller that holds it, 0 if free
  now,                \* time.Now()
  closes,             \* closes[h]: how often handle h was closed; one entry per dialled handle
  pc,                 \* pc[p]: where caller p is
  op,                 \* op[p]: "Write" or "Close", the call p is in
  i,                  \* i[p]: the loop variable of Write; -1 before the loop
  err,                \* err[p]: Write's err, the error of the latest formatTo
  firstErr,           \* firstErr[p]: getNewConn's firstErr
  k,                  \* k[p]: index of the candidate getNewConn is at
  wh,                 \* wh[p]: the handle the running formatTo writes to
  result,             \* result[p]: what the call returned
  log,                \* log[p]: the I/O events of the current call, in order
  afterClose,         \* afterClose[p]: the call was issued after a Close had returned
  closeReturned,      \* some Close has returned
  calls,              \* number of calls issued so far
  lastRound,          \* <<time, delay>> of the latest dial round, <<0, 0>> if none
  prevRound,          \* <<time, delay>> of the dial round before it
  ctxDone,            \* ctxDone[p]: the ctx of p's call is cancelled or expired
  armsSinceOk,        \* dial rounds started since the last successful transport write
  input,              \* the arguments of the function under study (pure-function specifications)
  output,             \* its result
  writeBuf            \* Logger.fmtr.writeBuf: the bytes of the scratch buffer's array

vars == <<w, closed, reconnectStartTime, cfg, connTargets, backoff, mutex, now,
          closes, pc, op, i, err, firstErr, k, wh, result, log, afterClose,
          closeReturned, calls, lastRound, prevRound, ctxDone, armsSinceOk,
          input, output, writeBuf>>

loggerVars == <<w, closed, reconnectStartTime, cfg, backoff, closes>>
ghostRounds == <<lastRound, prevRound>>
pureVars == <<input, output, writeBuf>>
\* what only Call (ctxDone) and Arm and WriteOk (armsSinceOk) change
restVars == <<connTargets, ctxDone, armsSinceOk, pureVars>>

\* --------------------------------------------------------------- errors
ErrNil == <<"nil", 0>>
errClosed == <<"errClosed", 0>>
errReconnectBackoff == <<"errReconnectBackoff", 0>>
DialErr(n) == <<"dialErr", n>>     \* the error of dialling candidate n
WriteErr(n) == <<"writeErr", n>>   \* the error of the call's n-th transport write

\* ------------------------------------------------ protocol.go: resolve
ProtocolAuto == "ProtocolAuto"
ProtocolV0Local == "ProtocolV0Local"
ProtocolV0Net == "ProtocolV0Net"
ProtocolV1Net == "ProtocolV1Net"
FramingAuto == "FramingAuto"
FramingLength == "FramingLength"
FramingDelimiterNUL == "FramingDelimiterNUL"
FramingDelimiterLF == "FramingDelimiterLF"
FramingNone == "FramingNone"
BOMModeAuto == "BOMModeAuto"
BOMModeAlways == "BOMModeAlways"
BOMModeNever == "BOMModeNever"

\* a resolve that leaves auto as it is
ProtocolResolve_KeepAuto(p, unix) == p
ProtocolResolve(p, unix) ==
  IF p # ProtocolAuto THEN p
  ELSE IF unix THEN ProtocolV0Local ELSE ProtocolV1Net

\* a resolve that honours an explicit framing on every transport
FramingResolve_KeepExplicit(f, needFraming) ==
  IF f = FramingAuto
    THEN (IF needFraming THEN FramingDelimiterNUL ELSE FramingNone)
    ELSE f
FramingResolve(f, needFraming) ==
  IF ~needFraming THEN FramingNone
  ELSE IF f = FramingAuto THEN FramingDelimiterNUL ELSE f

\* a BOM for every protocol that is not the local one
BOMModeResolve_NotLocal(b, p) ==
  IF b # BOMModeAuto THEN b
  ELSE IF p # ProtocolV0Local THEN BOMModeAlways ELSE BOMModeNever
\* BOMMode.resolve
BOMModeResolve(b, p) ==
  IF b # BOMModeAuto THEN b
  ELSE IF p = ProtocolV1Net THEN BOMModeAlways ELSE BOMModeNever

\* strings.HasPrefix(s, prefix)
HasPrefix(s, prefix) ==
  Len(s) >= Len(prefix) /\ SubSeq(s, 1, Len(prefix)) = prefix

\* the characters of a network name: the names Go's dialer knows, and two
\* names a caller may choose for a custom DialFunc
NetworkSpelling(network) ==
  CASE network = "unix" -> <<"u", "n", "i", "x">>
    [] network = "unixgram" -> <<"u", "n", "i", "x", "g", "r", "a", "m">>
    [] network = "unixpacket" -> <<"u", "n", "i", "x", "p", "a", "c", "k", "e", "t">>
    [] network = "unix+tls" -> <<"u", "n", "i", "x", "+", "t", "l", "s">>
    [] network = "udp" -> <<"u", "d", "p">>
    [] network = "udp4" -> <<"u", "d", "p", "4">>
    [] network = "udp6" -> <<"u", "d", "p", "6">>
    [] network = "tcp" -> <<"t", "c", "p">>
    [] network = "tcp4" -> <<"t", "c", "p", "4">>
    [] network = "tcp6" -> <<"t", "c", "p", "6">>
    [] network = "tls" -> <<"t", "l", "s">>
    [] network = "" -> << >>

\* a test for the one name "unix"
isUnix_ExactUnix(network) == network = "unix"
\* strings.HasPrefix(network, "unix")
isUnix(network) == HasPrefix(NetworkSpelling(network), <<"u", "n", "i", "x">>)

needsFraming(network) == network \notin {"unix", "unixgram", "udp"}

\* a handle that has no LocalAddr method, or whose LocalAddr() is nil
NoLocalAddr == "no LocalAddr"

\* Logger.getNetwork: the network the handle's LocalAddr reports when it has
\* one (the empty name included), otherwise the network of the FIRST candidate.
getNetwork(localNet) ==
  IF localNet # NoLocalAddr THEN localNet ELSE connTargets[1]

\* Logger.autoconfig: autoconfigDone is never set, so this runs at every connect.
autoconfig(localNet) ==
  LET actualNetwork == getNetwork(localNet)
      p == ProtocolResolve(cfg.Protocol, isUnix(actualNetwork))
  IN  [cfg EXCEPT
         !.Protocol = p,
         !.Framing  = FramingResolve(cfg.Framing, needsFraming(actualNetwork)),
         !.BOMMode  = BOMModeResolve(cfg.BOMMode, p)]

\* ------------------------------------------- gnet.Backoff (NextDelay, Reset)
Min(a, b) == IF a < b THEN a ELSE b
RECURSIVE Pow2(_)
Pow2(n) == IF n <= 0 THEN 1 ELSE 2 * Pow2(n - 1)

BackoffExhausted(b) == b.MaxTries # 0 /\ b.CurrentTry >= b.MaxTries
\* the delay NextDelay returns: exponential from InitialDelay, capped by MaxDelay,
\* and 0 once MaxTries tries were made
NextDelay(b) ==
  IF BackoffExhausted(b) THEN 0
  ELSE Min(InitialDelay * Pow2(b.CurrentTry), MaxDelay)
\* a NextDelay that does not count the try
AfterNextDelay_Keep(b) == b
\* the policy after NextDelay
AfterNextDelay(b) ==
  IF BackoffExhausted(b) THEN b ELSE [b EXCEPT !.CurrentTry = @ + 1]
\* a Reset that leaves the policy as it is
BackoffReset_Noop(b) == b
BackoffReset(b) == [b EXCEPT !.CurrentTry = 0]

\* ----------------------------------------------------------------- Init
\* the Loggers New can build here: local-socket candidates (unixgram, then
\* unix, for one path), or one network candidate
TargetLists == { <<"unixgram", "unix">>, <<"tcp">> }
\* a custom DialFunc can do all the default dialer does, so it stands for
\* both; the protocol and the BOM policy are left to autoconfig, the framing
\* is the caller's (SpecAuto has every Config)
Configs == { [Protocol |-> ProtocolAuto, Framing |-> FramingNone,
              BOMMode |-> BOMModeAuto, DialFunc |-> "custom"] }

\* formatter.init: sixteen bytes, all zero but the last, which is a space
ZeroByte == "NUL"
InitWriteBuf == [j \in 1..16 |-> IF j = 16 THEN " " ELSE ZeroByte]

\* New, lines 216-218: a Logger that has done nothing yet, and its callers
InitLogger ==
  /\ w = 0
  /\ closed = FALSE
  /\ reconnectStartTime = 0
  /\ mutex = 0
  /\ now = 1
  /\ closes = << >>
  /\ pc = [p \in Procs |-> "idle"]
  /\ op = [p \in Procs |-> "none"]
  /\ i = [p \in Procs |-> -1]
  /\ err = [p \in Procs |-> ErrNil]
  /\ firstErr = [p \in Procs |-> ErrNil]
  /\ k = [p \in Procs |-> 0]
  /\ wh = [p \in Procs |-> 0]
  /\ result = [p \in Procs |-> ErrNil]
  /\ log = [p \in Procs |-> << >>]
  /\ afterClose = [p \in Procs |-> FALSE]
  /\ closeReturned = FALSE
  /\ calls = 0
  /\ lastRound = <<0, 0>>
  /\ prevRound = <<0, 0>>
  /\ ctxDone = [p \in Procs |-> FALSE]
  /\ armsSinceOk = 0
  /\ writeBuf = InitWriteBuf

Backoffs == { [MaxTries |-> m, CurrentTry |-> 0] : m \in {0, MaxTriesOpt} }
NoValue == << >>

Init ==
  /\ InitLogger
  /\ cfg \in Configs
  /\ connTargets \in TargetLists
  /\ backoff \in Backoffs
  /\ input = NoValue
  /\ output = NoValue


\* ------------------------------------------------------------- helpers
\* the events of log: <<"arm", time, delay, not-before time until then>>,
\* <<"dial", candidate, 1 if it succeeded else 0, time>>, <<"wbegin", handle, 0, 0>>,
\* <<"wend", handle, 1 if it succeeded else 0, 0>>, <<"close", handle, 0, 0>>
Ev(kind, a, b, c) == <<kind, a, b, c>>
Logged(p, e) == log' = [log EXCEPT ![p] = Append(@, e)]
Goto(p, l) == pc' = [pc EXCEPT ![p] = l]
Return(p, e) == /\ result' = [result EXCEPT ![p] = e]
                /\ pc' = [pc EXCEPT ![p] = "unlock"]

\* a caller that takes no notice of the mutex
LockFree_Always(p) == TRUE
\* Close without its l.mutex.Lock()
LockFree_CloseUnlocked(p) == mutex = 0 \/ op[p] = "Close"
\* l.mutex.Lock() of caller p can proceed
LockFree(p) == mutex = 0

\* a window that stays open once a not-before time was set
InBackoff_NoExpiry == reconnectStartTime # 0
\* a check that never finds the backoff window open
InBackoff_Never == FALSE
\* ensureConn, line 341: the backoff window is open
InBackoff == reconnectStartTime # 0 /\ now < reconnectStartTime

\* ensureConn without its test of l.closed
EnsureDecision_NoClosedCheck ==
  IF w # 0 THEN "connected"
  ELSE IF InBackoff THEN "backoff"
  ELSE "dial"
\* what ensureConn decides before it dials (lines 333-343)
EnsureDecision ==
  IF w # 0 THEN "connected"
  ELSE IF closed THEN "closed"
  ELSE IF InBackoff THEN "backoff"
  ELSE "dial"

\* a Write that returns the reconnect's error from its retry
EnsureFailResult_ReconnectErr(p, e) == e
\* Write, lines 402-405 and 428-431: what Write returns when ensureConn
\* returned the error e; before the loop that error (return err, line 404),
\* in the retry the error of the transport write (return err, line 430)
EnsureFailResult(p, e) == IF i[p] < 0 THEN e ELSE err[p]

\* a loop that keeps the error of its first formatTo
IterErr_KeepFirst(p) == IF i[p] <= 0 THEN WriteErr(1) ELSE err[p]
\* Write, line 415: the error of iteration i's formatTo
IterErr(p) == WriteErr(i[p] + 1)

\* a loop that allows one more retry
RetryExhausted_OneMore(p) == i[p] > 1
\* Write, line 422: i > 0, the retry was already made
RetryExhausted(p) == i[p] > 0

\* a getNewConn that keeps the latest error
FirstErrAfter_Last(p, e) == e
\* getNewConn, lines 277-279
FirstErrAfter(p, e) == IF firstErr[p] = ErrNil THEN e ELSE firstErr[p]

\* a destroyConn that forgets l.w = nil
WAfterDestroy_Keep == w
\* destroyConn, line 362: l.w = nil
WAfterDestroy == 0

\* a destroyConn that drops the handle without closing it
ClosesAfterDestroy_NoClose == closes
\* destroyConn: the handle list after l.w.Close()
ClosesAfterDestroy == IF w = 0 THEN closes ELSE [closes EXCEPT ![w] = @ + 1]

\* a not-before time that leaves the delay out
NotBeforeAfterArm_NoDelay == now
\* ensureConn, line 345: time.Now().Add(l.cfg.ConnectBackoff.NextDelay())
NotBeforeAfterArm == now + NextDelay(backoff)

\* net.Conn.LocalAddr().Network() of a connection dialled for network n:
\* the address family suffix is not reported
LocalAddrNetwork(n) ==
  CASE n \in {"tcp", "tcp4", "tcp6"} -> "tcp"
    [] n \in {"udp", "udp4", "udp6"} -> "udp"
    [] OTHER -> n

\* the networks net.Dialer.DialContext accepts here
DialerNetworks ==
  {"unix", "unixgram", "unixpacket", "udp", "udp4", "udp6", "tcp", "tcp4", "tcp6"}
\* names a caller chose for its own DialFunc
CustomNetworks == {"unix+tls", "tls"}

\* what the handle of a successful dial for network n can report as its
\* network. The default dialer returns a net.Conn, whose LocalAddr reports
\* the network dialled. A custom DialFunc returns any io.WriteCloser: its
\* LocalAddr, when it has one, reports whatever network the DialFunc chose
\* to connect over (a TLS connection over a unix socket reports "unix"), a
\* name of its own or the empty name.
HandleNetworks(n) ==
  IF cfg.DialFunc = "custom"
    THEN DialerNetworks \cup CustomNetworks \cup {"", NoLocalAddr}
    ELSE {LocalAddrNetwork(n)}

\* getNewConnUsingTarget, lines 261-266: the dial is given ctx; the default
\* dialer fails once ctx is done, a custom DialFunc does as it likes
DialCanSucceed(p) == cfg.DialFunc = "custom" \/ ~ctxDone[p]

\* a transport write that gives up when ctx is done
formatToOutcomes_CtxBound(p) == IF ctxDone[p] THEN {0} ELSE {0, 1}
\* Write, line 415: formatTo is not given ctx; whether its transport write
\* succeeds (1) or fails (0) is the transport's matter alone
formatToOutcomes(p) == {0, 1}

\* ------------------------------------------------------------- actions
\* a caller issues Write or Close
Call(p) ==
  /\ pc[p] \in {"idle", "ret"}
  /\ calls < MaxCalls
  /\ \E o \in {"Write", "Close"} : op' = [op EXCEPT ![p] = o]
  /\ calls' = calls + 1
  /\ Goto(p, "lock")
  /\ i' = [i EXCEPT ![p] = -1]
  /\ err' = [err EXCEPT ![p] = ErrNil]
  /\ firstErr' = [firstErr EXCEPT ![p] = ErrNil]
  /\ k' = [k EXCEPT ![p] = 0]
  /\ wh' = [wh EXCEPT ![p] = 0]
  /\ result' = [result EXCEPT ![p] = ErrNil]
  /\ log' = [log EXCEPT ![p] = << >>]
  /\ afterClose' = [afterClose EXCEPT ![p] = closeReturned]
  /\ ctxDone' = [ctxDone EXCEPT ![p] = FALSE]
  /\ UNCHANGED <<loggerVars, connTargets, armsSinceOk, pureVars, mutex, now, closeReturned, ghostRounds>>

\* l.mutex.Lock() of Write (line 399) and of Close (line 368)
Lock(p) ==
  /\ pc[p] = "lock"
  /\ LockFree(p)
  /\ mutex' = p
  /\ Goto(p, IF op[p] = "Write" THEN "ensure" ELSE "cdestroy")
  /\ UNCHANGED <<loggerVars, restVars, now, op, i, err, firstErr, k, wh,
                 result, log, afterClose, closeReturned, calls, ghostRounds>>

\* ensureConn, lines 333-343: the checks made before any dial
ensureConn(p) ==
  /\ pc[p] = "ensure"
  /\ CASE EnsureDecision = "connected" ->
            /\ Goto(p, "fmt")
            /\ UNCHANGED result
       [] EnsureDecision = "closed" -> Return(p, EnsureFailResult(p, errClosed))
       [] EnsureDecision = "backoff" -> Return(p, EnsureFailResult(p, errReconnectBackoff))
       [] OTHER ->
            /\ Goto(p, "arm")
            /\ UNCHANGED result
  /\ UNCHANGED <<loggerVars, restVars, mutex, now, op, i, err, firstErr, k,
                 wh, log, afterClose, closeReturned, calls, ghostRounds>>

\* ensureConn, line 345: the delay is consumed and the not-before time set,
\* before the first candidate is dialled
Arm(p) ==
  /\ pc[p] = "arm"
  /\ reconnectStartTime' = NotBeforeAfterArm
  /\ backoff' = AfterNextDelay(backoff)
  /\ firstErr' = [firstErr EXCEPT ![p] = ErrNil]
  /\ k' = [k EXCEPT ![p] = 1]
  /\ Logged(p, Ev("arm", now, NextDelay(backoff), reconnectStartTime))
  /\ prevRound' = lastRound
  /\ armsSinceOk' = armsSinceOk + 1
  /\ lastRound' = <<now, NextDelay(backoff)>>
  /\ Goto(p, "dial")
  /\ UNCHANGED <<w, closed, cfg, closes, connTargets, ctxDone, pureVars, mutex, now, op, i, err,
                 wh, result, afterClose, closeReturned, calls>>

\* getNewConn, lines 272-275: candidate k dials; its handle becomes l.w and
\* autoconfig runs (lines 348-351). The handle reports the network it
\* connected over, or (a custom DialFunc) has no LocalAddr.
DialOk(p) ==
  /\ pc[p] = "dial"
  /\ DialCanSucceed(p)
  /\ \E localNet \in HandleNetworks(connTargets[k[p]]) : cfg' = autoconfig(localNet)
  /\ closes' = Append(closes, 0)
  /\ w' = Len(closes) + 1
  /\ Logged(p, Ev("dial", k[p], 1, now))
  /\ Goto(p, "fmt")
  /\ UNCHANGED <<closed, reconnectStartTime, backoff, restVars, mutex, now,
                 op, i, err, firstErr, k, wh, result, afterClose,
                 closeReturned, calls, ghostRounds>>

\* getNewConn, lines 272-282: candidate k fails; the next one is tried, or
\* ensureConn returns the first error
DialFail(p) ==
  /\ pc[p] = "dial"
  /\ firstErr' = [firstErr EXCEPT ![p] = FirstErrAfter(p, DialErr(k[p]))]
  /\ Logged(p, Ev("dial", k[p], 0, now))
  /\ IF k[p] < Len(connTargets)
       THEN /\ k' = [k EXCEPT ![p] = @ + 1]
            /\ UNCHANGED <<pc, result>>
       ELSE /\ Return(p, EnsureFailResult(p, FirstErrAfter(p, DialErr(k[p]))))
            /\ UNCHANGED k
  /\ UNCHANGED <<loggerVars, restVars, mutex, now, op, i, err, wh,
                 afterClose, closeReturned, calls, ghostRounds>>

\* Write, line 414-415: formatTo starts its transport write on l.w
formatTo(p) ==
  /\ pc[p] = "fmt"
  /\ i' = [i EXCEPT ![p] = IF @ < 0 THEN 0 ELSE @]
  /\ wh' = [wh EXCEPT ![p] = w]
  /\ Logged(p, Ev("wbegin", w, 0, 0))
  /\ Goto(p, "fmtret")
  /\ UNCHANGED <<loggerVars, restVars, mutex, now, op, err, firstErr, k,
                 result, afterClose, closeReturned, calls, ghostRounds>>

\* Write, lines 416-421: the transport write succeeded
WriteOk(p) ==
  /\ pc[p] = "fmtret"
  /\ 1 \in formatToOutcomes(p)
  /\ backoff' = BackoffReset(backoff)
  /\ armsSinceOk' = 0
  /\ Logged(p, Ev("wend", wh[p], 1, 0))
  /\ wh' = [wh EXCEPT ![p] = 0]
  /\ Return(p, ErrNil)
  /\ UNCHANGED <<w, closed, reconnectStartTime, cfg, closes, connTargets, ctxDone, pureVars, mutex,
                 now, op, i, err, firstErr, k, afterClose, closeReturned, calls,
                 ghostRounds>>

\* Write, lines 415-427: the transport write failed
WriteFail(p) ==
  /\ pc[p] = "fmtret"
  /\ 0 \in formatToOutcomes(p)
  /\ err' = [err EXCEPT ![p] = IterErr(p)]
  /\ Logged(p, Ev("wend", wh[p], 0, 0))
  /\ wh' = [wh EXCEPT ![p] = 0]
  /\ Goto(p, "destroy")
  /\ UNCHANGED <<loggerVars, restVars, mutex, now, op, i, firstErr, k,
                 result, afterClose, closeReturned, calls, ghostRounds>>

\* Write, lines 422-428: destroyConn after a failed transport write; the
\* second failure returns its own error, the first goes on to reconnect
destroyConn(p) ==
  /\ pc[p] = "destroy"
  /\ closes' = ClosesAfterDestroy
  /\ w' = WAfterDestroy
  /\ Logged(p, Ev("close", w, 0, 0))
  /\ IF RetryExhausted(p)
       THEN /\ Return(p, err[p])
            /\ UNCHANGED i
       ELSE /\ i' = [i EXCEPT ![p] = @ + 1]
            /\ Goto(p, "ensure")
            /\ UNCHANGED result
  /\ UNCHANGED <<closed, reconnectStartTime, cfg, backoff, restVars, mutex,
                 now, op, err, firstErr, k, wh, afterClose, closeReturned,
                 calls, ghostRounds>>

\* Write returns: the deferred l.mutex.Unlock() (line 400)
Unlock(p) ==
  /\ pc[p] = "unlock"
  /\ mutex' = IF mutex = p THEN 0 ELSE mutex
  /\ Goto(p, "ret")
  /\ UNCHANGED <<loggerVars, restVars, now, op, i, err, firstErr, k, wh,
                 result, log, afterClose, closeReturned, calls, ghostRounds>>

\* Close, line 371: destroyConn
CloseDestroy(p) ==
  /\ pc[p] = "cdestroy"
  /\ closes' = ClosesAfterDestroy
  /\ w' = WAfterDestroy
  /\ log' = [log EXCEPT ![p] = IF w = 0 THEN @ ELSE Append(@, Ev("close", w, 0, 0))]
  /\ Goto(p, "cret")
  /\ UNCHANGED <<closed, reconnectStartTime, cfg, backoff, restVars, mutex,
                 now, op, i, err, firstErr, k, wh, result, afterClose,
                 closeReturned, calls, ghostRounds>>

\* Close, lines 372-373 and the deferred Unlock (line 369)
CloseReturn(p) ==
  /\ pc[p] = "cret"
  /\ closed' = TRUE
  /\ mutex' = IF mutex = p THEN 0 ELSE mutex
  /\ result' = [result EXCEPT ![p] = ErrNil]
  /\ closeReturned' = TRUE
  /\ Goto(p, "ret")
  /\ UNCHANGED <<w, reconnectStartTime, cfg, backoff, closes, restVars, now,
                 op, i, err, firstErr, k, wh, log, afterClose, calls,
                 ghostRounds>>

\* the clock moves
Tick ==
  /\ now < MaxTime
  /\ now' = now + 1
  /\ UNCHANGED <<loggerVars, restVars, mutex, pc, op, i, err, firstErr, k,
                 wh, result, log, afterClose, closeReturned, calls, ghostRounds>>

Next ==
  \/ \E p \in Procs : Call(p)
  \/ \E p \in Procs : Lock(p)
  \/ \E p \in Procs : ensureConn(p)
  \/ \E p \in Procs : Arm(p)
  \/ \E p \in Procs : DialOk(p)
  \/ \E p \in Procs : DialFail(p)
  \/ \E p \in Procs : formatTo(p)
  \/ \E p \in Procs : WriteOk(p)
  \/ \E p \in Procs : WriteFail(p)
  \/ \E p \in Procs : destroyConn(p)
  \/ \E p \in Procs : Unlock(p)
  \/ \E p \in Procs : CloseDestroy(p)
  \/ \E p \in Procs : CloseReturn(p)
  \/ Tick

Spec == Init /\ [][Next]_vars

TypeOK ==
  /\ w \in 0..Len(closes)
  /\ closed \in BOOLEAN
  /\ mutex \in 0..NumProcs
  /\ now \in 1..MaxTime


\* ------------------------------------------- what the claims speak about
Handles == 1..Len(closes)
OpenHandles == { h \in Handles : closes[h] = 0 }
CS == {"ensure", "arm", "dial", "fmt", "fmtret", "destroy", "unlock", "cdestroy", "cret"}
WriteCS == {"ensure", "arm", "dial", "fmt", "fmtret", "destroy", "unlock"}
InCS(p) == pc[p] \in CS

Events(p, kind) == SelectSeq(log[p], LAMBDA e : e[1] = kind)
Count(p, kind) == Len(Events(p, kind))
WriteResults(p) == Events(p, "wend")          \* the finished transport writes
FailedWrites(p) == SelectSeq(WriteResults(p), LAMBDA e : e[3] = 0)
GoodWrites(p) == SelectSeq(WriteResults(p), LAMBDA e : e[3] = 1)
FailedDials(p) == SelectSeq(Events(p, "dial"), LAMBDA e : e[3] = 0)
\* the dial rounds of the call that were started after a transport write
RoundsAfterWrite(p) ==
  { n \in 1..Len(log[p]) :
      log[p][n][1] = "arm" /\ \E m \in 1..(n - 1) : log[p][m][1] = "wend" }
\* index of the latest "arm" event at or before position n of log[p], 0 if none
RECURSIVE ArmBefore(_, _)
ArmBefore(p, n) ==
  IF n = 0 THEN 0
  ELSE IF log[p][n][1] = "arm" THEN n ELSE ArmBefore(p, n - 1)
WriteReturned(p) == pc[p] = "ret" /\ op[p] = "Write"
\* Write is about to return: result set, lock still held
WriteReturning(p) == pc[p] = "unlock" /\ op[p] = "Write"

\* ----------------------------------------------------------------- C1
\* C1: at most one dialled handle is open at any time, and an open handle is
\* the one the Logger holds (none is leaked unclosed); a dial is only issued
\* while no handle is held; a dial round stops at the first candidate that
\* succeeds.
C1_SingleOpenHandle ==
  /\ Cardinality(OpenHandles) <= 1
  /\ \A h \in OpenHandles : w = h
  /\ \A p \in Procs : pc[p] = "dial" => w = 0
  /\ \A p \in Procs : \A n \in 1..Len(log[p]) :
       (log[p][n][1] = "dial" /\ log[p][n][3] = 1 /\ n < Len(log[p]))
          => log[p][n + 1][1] # "dial"

\* a second handle is held after the first one was lost and closed
C1_Witness == Len(closes) >= 2 /\ w = 2 /\ closes[1] = 1

\* ----------------------------------------------------------------- C2
\* C2: a Write issued after a Close has returned performs no dial and no
\* transport write, is not retried, and returns the Closed error, whatever
\* the state Close was called in.
C2_WriteAfterClose ==
  \A p \in Procs : (op[p] = "Write" /\ afterClose[p]) =>
     /\ pc[p] \notin {"arm", "dial", "fmt", "fmtret", "destroy"}
     /\ log[p] = << >>
     /\ pc[p] \in {"unlock", "ret"} => result[p] = errClosed

\* a Write issued after Close returned has returned, on a Logger that had
\* been connected and armed its backoff before the Close
C2_Witness ==
  \E p \in Procs : WriteReturned(p) /\ afterClose[p] /\ Len(closes) >= 1
                   /\ reconnectStartTime # 0

\* ----------------------------------------------------------------- C3
\* C3: when Write makes its connection check on a Disconnected, not closed
\* Logger before the not-before time, it returns the Backoff error at once
\* and has performed no dial and no transport write.
C3_BackoffNoIO ==
  [][ \A p \in Procs :
        ( /\ pc[p] = "ensure" /\ i[p] < 0
          /\ w = 0 /\ ~closed
          /\ reconnectStartTime # 0 /\ now < reconnectStartTime
          /\ pc'[p] # pc[p] )
        => ( /\ pc'[p] = "unlock"
             /\ result'[p] = errReconnectBackoff
             /\ log'[p] = << >>
             /\ closes' = closes /\ w' = 0 ) ]_vars

\* a Write has returned the Backoff error
C3_Witness ==
  \E p \in Procs : WriteReturned(p) /\ result[p] = errReconnectBackoff
                   /\ log[p] = << >> /\ ~closed

\* ----------------------------------------------------------------- C4
\* C4: the not-before time is now plus the consumed delay from the start of
\* a dial round on (while it dials and after it succeeded or failed); two
\* dial rounds are at least the earlier round's delay apart; and every dial
\* is made at or after the not-before time that was in force when its round
\* started.
C4_RateLimit ==
  /\ IF lastRound = <<0, 0>> THEN reconnectStartTime = 0
     ELSE reconnectStartTime = lastRound[1] + lastRound[2]
  /\ prevRound # <<0, 0>> => lastRound[1] >= prevRound[1] + prevRound[2]
  /\ \A p \in Procs : \A n \in 1..Len(log[p]) :
       log[p][n][1] = "dial" =>
          /\ ArmBefore(p, n) > 0
          /\ log[p][n][4] >= log[p][ArmBefore(p, n)][4]

\* two dial rounds were made, the earlier one with a positive delay, and the
\* later one has dialled
C4_Witness ==
  /\ prevRound # <<0, 0>> /\ prevRound[2] > 0
  /\ \E p \in Procs : /\ Count(p, "dial") > 0
                      /\ log[p][1][1] = "arm" /\ log[p][1][4] > 0

\* ----------------------------------------------------------------- C5
\* C5: a Write whose first transport write fails, with no other transport
\* write and no dial failing, returns success after exactly one destroy, one
\* dial round and one successful transport write.
C5_RetryContract ==
  \A p \in Procs :
    ( /\ WriteReturned(p)
      /\ Len(WriteResults(p)) >= 1 /\ WriteResults(p)[1][3] = 0
      /\ Len(FailedWrites(p)) = 1
      /\ Len(FailedDials(p)) = 0 )
    => ( /\ result[p] = ErrNil
         /\ Count(p, "close") = 1
         /\ Cardinality(RoundsAfterWrite(p)) = 1
         /\ Len(GoodWrites(p)) = 1 )

\* ----------------------------------------------------------------- C6
\* C6: when the first transport write of a Write fails and the reconnect
\* fails (every candidate fails, or the backoff window rejects it), Write
\* returns the error of that transport write and the Logger is Disconnected.
C6_OriginalError ==
  \A p \in Procs :
    ( /\ WriteReturning(p)
      /\ Len(WriteResults(p)) = 1 /\ WriteResults(p)[1][3] = 0 )
    => ( /\ result[p] = WriteErr(1)
         /\ w = 0
         /\ OpenHandles = {} )

\* such a Write is returning after every candidate failed in the reconnect
C6_Witness ==
  \E p \in Procs :
     /\ WriteReturning(p)
     /\ Len(WriteResults(p)) = 1 /\ WriteResults(p)[1][3] = 0
     /\ log[p][Len(log[p])][1] = "dial"
     /\ log[p][Len(log[p])][3] = 0

\* ----------------------------------------------------------------- C7
\* C7: when both transport writes of a Write fail, the handle the reconnect
\* established is closed too and Write returns the second write's error.
C7_SecondError ==
  \A p \in Procs :
    ( WriteReturning(p) /\ Len(FailedWrites(p)) = 2 )
    => ( /\ result[p] = WriteErr(2)
         /\ w = 0
         /\ \A n \in 1..2 : closes[Events(p, "wbegin")[n][2]] = 1
         /\ Events(p, "wbegin")[1][2] # Events(p, "wbegin")[2][2] )

\* a Write is returning after two failed transport writes
C7_Witness ==
  \E p \in Procs : WriteReturning(p) /\ Len(FailedWrites(p)) = 2


\* ----------------------------------------------------------------- C8
\* C8: a Write call makes at most two transport write attempts and at most
\* two dial rounds, each round dials each candidate at most once, and the
\* call can always take its next step until it returns: nothing is queued
\* or retried beyond that.
C8_BoundedWrite ==
  \A p \in Procs :
    /\ Count(p, "wbegin") <= 2
    /\ Count(p, "arm") <= 2
    /\ \A m, n \in 1..Len(log[p]) :
         ( /\ m < n /\ log[p][m][1] = "dial" /\ log[p][n][1] = "dial"
           /\ ArmBefore(p, m) = ArmBefore(p, n) )
         => log[p][m][2] < log[p][n][2]
    /\ \A n \in 1..Len(log[p]) :
         log[p][n][1] = "dial" => log[p][n][2] \in 1..Len(connTargets)
    /\ Len(log[p]) <= 2 * (Len(connTargets) + 4)
    /\ (op[p] = "Write" /\ mutex = p) =>
         ENABLED ( \/ ensureConn(p) \/ Arm(p) \/ DialOk(p) \/ DialFail(p)
                   \/ formatTo(p) \/ WriteOk(p) \/ WriteFail(p)
                   \/ destroyConn(p) \/ Unlock(p) )

\* a Write has returned after two transport write attempts and two dial
\* rounds, the first of which tried every candidate
C8_Witness ==
  \E p \in Procs :
     /\ WriteReturned(p)
     /\ Count(p, "wbegin") = 2 /\ Count(p, "arm") = 2
     /\ Count(p, "dial") > 2

\* ----------------------------------------------------------------- C9
\* C9: at most one call is inside its critical section at any time, and it
\* is the one that holds the mutex; so at most one transport write is in
\* progress.
C9_MutualExclusion ==
  /\ Cardinality({ p \in Procs : InCS(p) }) <= 1
  /\ \A p \in Procs : InCS(p) => mutex = p
  /\ Cardinality({ p \in Procs : pc[p] = "fmtret" }) <= 1

\* a transport write is in progress while another call waits for the mutex
C9_Witness ==
  \E p, q \in Procs : p # q /\ pc[p] = "fmtret" /\ pc[q] = "lock"
                      /\ op[q] = "Write"

\* ---------------------------------------------------------------- C10
\* C10: the handle of a transport write in progress is open (not closed
\* before the write was issued, nor while it runs), and while a Close is at
\* work no Write is between its first and its last step.
C10_NoCloseDuringWrite ==
  /\ \A p \in Procs : pc[p] = "fmtret" =>
        /\ wh[p] \in Handles
        /\ closes[wh[p]] = 0
        /\ w = wh[p]
  /\ \A p, q \in Procs :
        (p # q /\ op[p] = "Close" /\ pc[p] \in {"cdestroy", "cret"})
           => ~(op[q] = "Write" /\ pc[q] \in WriteCS)

\* a transport write is in progress while a Close waits for the mutex
C10_Witness ==
  \E p, q \in Procs : p # q /\ pc[p] = "fmtret" /\ pc[q] = "lock"
                      /\ op[q] = "Close"


\* ---------------------------------------------------------------- C11
\* C11: every handle is closed at most once over the Logger's lifetime; a
\* Close returns no error; and a Close issued after a Close has returned
\* closes nothing.
C11_CloseIdempotent ==
  /\ \A h \in Handles : closes[h] <= 1
  /\ \A p \in Procs : (op[p] = "Close" /\ pc[p] = "ret") => result[p] = ErrNil
  /\ \A p \in Procs : (op[p] = "Close" /\ afterClose[p]) => log[p] = << >>

\* a second Close has returned, on a Logger whose first Close closed a handle
C11_Witness ==
  \E p \in Procs : /\ op[p] = "Close" /\ pc[p] = "ret" /\ afterClose[p]
                   /\ Len(closes) >= 1 /\ closes[1] = 1

\* ---------------------------------------------------------------- C12
\* C12: once the closed flag is set no step clears it, and whenever it is
\* set the Logger holds no handle.
C12_ClosedMonotonic ==
  /\ [](closed => w = 0)
  /\ [][closed => closed']_vars

\* the flag is set, a handle was held before, and a Write came after
C12_Witness ==
  /\ closed /\ Len(closes) >= 1
  /\ \E p \in Procs : WriteReturned(p) /\ afterClose[p]

\* ---------------------------------------------------------------- C13
\* C13: a Write that returns success leaves the backoff policy reset; the
\* policy's try counter goes back to zero only in the step of a successful
\* transport write (not by a dial, not by a failed write); and a dial round
\* started with no round since the last successful write consumes the
\* initial delay.
C13_ResetOnSuccess ==
  /\ [](\A p \in Procs :
          (WriteReturning(p) /\ result[p] = ErrNil) => backoff.CurrentTry = 0)
  /\ [][ (backoff.CurrentTry # 0 /\ backoff'.CurrentTry = 0) =>
           \E p \in Procs : /\ pc[p] = "fmtret" /\ pc'[p] = "unlock"
                            /\ result'[p] = ErrNil ]_vars
  /\ [][ (lastRound' # lastRound /\ armsSinceOk = 0) =>
           lastRound'[2] = Min(InitialDelay, MaxDelay) ]_vars

\* after a successful write a second dial round was started, and it consumed
\* the initial delay again (an unlimited policy would otherwise have grown)
C13_Witness ==
  /\ prevRound # <<0, 0>> /\ armsSinceOk = 1 /\ backoff.MaxTries = 0
  /\ lastRound[2] = InitialDelay /\ lastRound[1] > prevRound[1]

\* ---------------------------------------------------------------- C14
\* C14: a dial round dials candidate 1 first and then, after each failure,
\* the next candidate of the list; nothing is dialled after a success; when
\* the last candidate has failed too, getNewConn's error is the first
\* candidate's, the Logger holds no handle, and a Write that had not written
\* yet returns that error without any transport write.
C14_DialOrder ==
  \A p \in Procs :
    /\ \A n \in 1..Len(log[p]) : log[p][n][1] = "dial" =>
         /\ n > 1
         /\ IF log[p][n - 1][1] = "arm" THEN log[p][n][2] = 1
            ELSE /\ log[p][n - 1][1] = "dial" /\ log[p][n - 1][3] = 0
                 /\ log[p][n][2] = log[p][n - 1][2] + 1
    /\ ( /\ WriteReturning(p) /\ Len(log[p]) > 0
         /\ log[p][Len(log[p])][1] = "dial" )
       => ( /\ log[p][Len(log[p])][3] = 0
            /\ log[p][Len(log[p])][2] = Len(connTargets)
            /\ firstErr[p] = DialErr(1)
            /\ w = 0
            /\ (Count(p, "wbegin") = 0 => result[p] = DialErr(1)) )

\* a Write is returning the first candidate's error after two candidates
\* failed, without having written
C14_Witness ==
  \E p \in Procs : /\ WriteReturning(p) /\ Len(connTargets) = 2
                   /\ Count(p, "dial") = 2 /\ Count(p, "wbegin") = 0
                   /\ result[p] = DialErr(1)


\* ------------------------------------------ callers whose ctx is done
\* a caller issues Write with a ctx that is already cancelled or expired
CallCancelled(p) ==
  /\ pc[p] \in {"idle", "ret"}
  /\ calls < MaxCalls
  /\ op' = [op EXCEPT ![p] = "Write"]
  /\ calls' = calls + 1
  /\ Goto(p, "lock")
  /\ i' = [i EXCEPT ![p] = -1]
  /\ err' = [err EXCEPT ![p] = ErrNil]
  /\ firstErr' = [firstErr EXCEPT ![p] = ErrNil]
  /\ k' = [k EXCEPT ![p] = 0]
  /\ wh' = [wh EXCEPT ![p] = 0]
  /\ result' = [result EXCEPT ![p] = ErrNil]
  /\ log' = [log EXCEPT ![p] = << >>]
  /\ afterClose' = [afterClose EXCEPT ![p] = closeReturned]
  /\ ctxDone' = [ctxDone EXCEPT ![p] = TRUE]
  /\ UNCHANGED <<loggerVars, connTargets, armsSinceOk, pureVars, mutex, now,
                 closeReturned, ghostRounds>>

\* the ctx of a Write that is under way is cancelled or expires
CtxExpire(p) ==
  /\ op[p] = "Write"
  /\ pc[p] \notin {"idle", "ret"}
  /\ ~ctxDone[p]
  /\ ctxDone' = [ctxDone EXCEPT ![p] = TRUE]
  /\ UNCHANGED <<loggerVars, connTargets, armsSinceOk, pureVars, mutex, now,
                 pc, op, i, err, firstErr, k, wh, result, log, afterClose,
                 closeReturned, calls, ghostRounds>>

\* Loggers with the default dialer (DialFunc nil) and with a custom DialFunc
ConfigsCtx == { [Protocol |-> ProtocolAuto, Framing |-> FramingNone,
                 BOMMode |-> BOMModeAuto, DialFunc |-> d] : d \in {"nil", "custom"} }

InitCtx ==
  /\ InitLogger
  /\ cfg \in ConfigsCtx
  /\ connTargets = <<"tcp">>
  /\ backoff \in { b \in Backoffs : b.MaxTries = 0 }
  /\ input = NoValue
  /\ output = NoValue

NextCtx ==
  \/ Next
  \/ \E p \in Procs : CallCancelled(p)
  \/ \E p \in Procs : CtxExpire(p)

SpecCtx == InitCtx /\ [][NextCtx]_vars

\* ---------------------------------------------------------------- C15
\* C15: a Write whose ctx is done finds a Connected Logger connected and
\* goes on to the transport write; a transport write that has started can
\* succeed whatever the ctx; only a dial looks at ctx (the default dialer
\* cannot connect once ctx is done).
C15_CtxBoundsDialOnly ==
  /\ [](\A p \in Procs : pc[p] = "fmtret" => ENABLED WriteOk(p))
  /\ [][ \A p \in Procs :
           /\ ( /\ pc[p] = "ensure" /\ w # 0 /\ ctxDone[p] /\ pc'[p] # pc[p] )
                => pc'[p] = "fmt"
           /\ ( /\ pc[p] = "fmt" /\ pc'[p] # pc[p] )
                => ( /\ pc'[p] = "fmtret"
                     /\ log'[p] = Append(log[p], Ev("wbegin", w, 0, 0)) )
           /\ ( /\ pc[p] = "dial" /\ ctxDone[p] /\ cfg.DialFunc = "nil"
                /\ log'[p] # log[p] )
                => log'[p][Len(log'[p])][3] = 0 ]_vars

\* a Write called with a done ctx on a Connected Logger is returning success
\* after its transport write, without any dial
C15_Witness ==
  \E p \in Procs : /\ WriteReturning(p) /\ ctxDone[p] /\ result[p] = ErrNil
                   /\ Len(log[p]) = 2 /\ log[p][2][1] = "wend"


\* ------------------------------------------------------------ makePri
PriExtra == 8

\* Go's & and | on non-negative operands
RECURSIVE BitAnd(_, _)
BitAnd(a, b) ==
  IF a = 0 \/ b = 0 THEN 0
  ELSE (a % 2) * (b % 2) + 2 * BitAnd(a \div 2, b \div 2)

RECURSIVE BitOr(_, _)
BitOr(a, b) ==
  IF a = 0 THEN b
  ELSE IF b = 0 THEN a
  ELSE (IF a % 2 = 1 \/ b % 2 = 1 THEN 1 ELSE 0) + 2 * BitOr(a \div 2, b \div 2)

\* the low eight bits of a two's complement int: all that a mask below 256 sees
LowByte(x) == x % 256

\* a severity mask one bit too wide
SeverityBits_Mask15(s) == BitAnd(LowByte(s), 15)
\* int(severity) & 7
SeverityBits(s) == BitAnd(LowByte(s), 7)

\* a facility mask that drops the top bit
FacilityBits_Mask78(f) == BitAnd(LowByte(f * 8), 120)
\* (int(facility) << 3) & 0xf8
FacilityBits(f) == BitAnd(LowByte(f * 8), 248)

makePri(severity, facility) == SeverityBits(severity) + FacilityBits(facility)

\* Message.Severity and Message.Facility are ints: the named values and
\* PriExtra more on either side of each enumeration
Severities == (0 - PriExtra) .. (7 + PriExtra)
Facilities == (0 - PriExtra) .. (23 + PriExtra)

InitPri ==
  /\ InitLogger
  /\ cfg \in Configs
  /\ connTargets = <<"tcp">>
  /\ backoff = [MaxTries |-> 0, CurrentTry |-> 0]
  /\ input \in Severities \X Facilities
  /\ output = NoValue

\* pri := makePri(msg.Severity, msg.Facility)
ComputePri ==
  /\ output = NoValue
  /\ output' = <<makePri(input[1], input[2])>>
  /\ UNCHANGED <<loggerVars, connTargets, ctxDone, armsSinceOk, input,
                 writeBuf, mutex, now, pc, op, i, err, firstErr, k, wh, result,
                 log, afterClose, closeReturned, calls, ghostRounds>>

NextPri == ComputePri

SpecPri == InitPri /\ [][NextPri]_vars

\* ---------------------------------------------------------------- C16
\* C16: for every severity s in [0,7] and facility f in [0,23], makePri(s, f)
\* is (s & 7) | ((f & 31) << 3), which the code's sum of masks equals.
C16_PriFormula ==
  ( /\ output # NoValue /\ input[1] \in 0..7 /\ input[2] \in 0..23 )
    => output[1] = BitOr(BitAnd(input[1], 7), BitAnd(input[2], 31) * 8)

\* Severity.Warning with Facility.Auth encodes as <36>; local7.debug as <191>
C16_Witness ==
  \/ input = <<4, 4>> /\ output = <<36>>
  \/ input = <<7, 23>> /\ output = <<191>>

\* ---------------------------------------------------------------- C17
\* C17 as stated: the PRI computed for a message is in [0,191] whatever
\* Severity and Facility the Message holds.
C17_PriAtMost191 == output # NoValue => output[1] \in 0..191

\* C17: the PRI computed for a message is in [0,255] whatever Severity and
\* Facility the Message holds, and it is in [0,191] exactly when the low five
\* bits of the facility are at most 23, so for every facility in [0,23].
C17_PriRange ==
  output # NoValue =>
    /\ output[1] \in 0..255
    /\ (output[1] \in 0..191) <=> (input[2] % 32 \in 0..23)

\* a facility outside [0,23] gives a PRI above 191
C17_Witness == output # NoValue /\ input[2] \notin 0..23 /\ output[1] > 191


\* --------------------------------------------------------- autoconfig
MaxConnects == 2

\* every Config a caller can pass to New, as far as autoconfig reads it
ConfigsAuto ==
  [ Protocol : {ProtocolAuto, ProtocolV0Local, ProtocolV0Net, ProtocolV1Net},
    Framing  : {FramingAuto, FramingLength, FramingDelimiterNUL,
                FramingDelimiterLF, FramingNone},
    BOMMode  : {BOMModeAuto, BOMModeAlways, BOMModeNever},
    DialFunc : {"nil", "custom"} ]

\* determineConnTargets: the local-socket candidates of the platform (both
\* kinds, or the one asked for), else the single network asked for
NetworksAuto ==
  {"udp", "udp4", "udp6", "tcp", "tcp4", "tcp6", "unixpacket"} \cup CustomNetworks
TargetListsAuto ==
  { <<"unixgram", "unix">>, <<"unixgram">>, <<"unix">> }
    \cup { <<n>> : n \in NetworksAuto }

\* getNewConnUsingTarget, lines 261-266: a custom DialFunc is given any
\* network name; the default dialer knows its own names only
CanDial(network) == cfg.DialFunc = "custom" \/ network \in DialerNetworks

\* input keeps the Config as New received it; cfg is resolved in place
InitAuto ==
  /\ InitLogger
  /\ cfg \in ConfigsAuto
  /\ input = cfg
  /\ connTargets \in TargetListsAuto
  /\ backoff = [MaxTries |-> 0, CurrentTry |-> 0]
  /\ output = NoValue

\* ensureConn, lines 346-353: getNewConn connects candidate c, the handle is
\* installed and autoconfig runs; output records the candidate that connected
\* and the network its handle reports
Connect ==
  /\ w = 0
  /\ Len(closes) < MaxConnects
  /\ \E c \in 1..Len(connTargets) :
       \E localNet \in HandleNetworks(connTargets[c]) :
         /\ CanDial(connTargets[c])
         /\ cfg' = autoconfig(localNet)
         /\ output' = <<connTargets[c], localNet>>
  /\ closes' = Append(closes, 0)
  /\ w' = Len(closes) + 1
  /\ UNCHANGED <<closed, reconnectStartTime, backoff, connTargets, ctxDone,
                 armsSinceOk, input, writeBuf, mutex, now, pc, op, i, err,
                 firstErr, k, wh, result, log, afterClose, closeReturned,
                 calls, ghostRounds>>

\* destroyConn, lines 356-363, after a failed transport write
Disconnect ==
  /\ w # 0
  /\ closes' = ClosesAfterDestroy
  /\ w' = WAfterDestroy
  /\ UNCHANGED <<closed, reconnectStartTime, cfg, backoff, restVars, mutex,
                 now, pc, op, i, err, firstErr, k, wh, result, log,
                 afterClose, closeReturned, calls, ghostRounds>>

NextAuto ==
  \/ Connect
  \/ Disconnect

SpecAuto == InitAuto /\ [][NextAuto]_vars

\* the transport kinds the claims speak of
LocalSocketKinds == {"unix", "unixgram", "unixpacket"}
DatagramKinds == {"udp", "udp4", "udp6", "unixgram", "unixpacket"}
Connected == w # 0 /\ output # NoValue

\* ---------------------------------------------------------------- C18
\* the kind of the transport that connected: the network its handle
\* reports, and the candidate's when the handle reports none
ConnectedKind == IF output[2] # NoLocalAddr THEN output[2] ELSE output[1]

\* C18 as stated: with Protocol left on auto, while connected over one of
\* the kinds of the dialer the protocol is V0Local exactly when the transport
\* that connected is a local-socket kind and V1Net otherwise, after every
\* successful connect; a Protocol the caller chose is kept.
C18_ProtocolAuto ==
  Connected =>
    IF input.Protocol = ProtocolAuto
      THEN ConnectedKind \in DialerNetworks =>
             cfg.Protocol = (IF ConnectedKind \in LocalSocketKinds
                               THEN ProtocolV0Local ELSE ProtocolV1Net)
      ELSE cfg.Protocol = input.Protocol

\* the network names that begin with "unix": the local-socket kinds of the
\* dialer and a caller's own name for a transport over one
UnixNamed == {"unix", "unixgram", "unixpacket", "unix+tls"}
\* the network name the first connect goes by: the one the handle reports,
\* the first candidate's when the handle reports none
NetworkSeen == IF output[2] # NoLocalAddr THEN output[2] ELSE connTargets[1]

\* C18: with Protocol left on auto, the first successful connect fixes the
\* protocol: V0Local exactly when the network name the connect goes by
\* begins with "unix", V1Net otherwise; every later connect keeps that
\* protocol, whatever kind it connects over; a Protocol the caller chose is
\* kept, over every kind and at every connect.
C18_ProtocolFixedAtFirstConnect ==
  /\ []((Connected /\ Len(closes) = 1 /\ input.Protocol = ProtocolAuto) =>
          cfg.Protocol = (IF NetworkSeen \in UnixNamed
                            THEN ProtocolV0Local ELSE ProtocolV1Net))
  /\ []((Connected /\ input.Protocol # ProtocolAuto) =>
          cfg.Protocol = input.Protocol)
  /\ [][output # NoValue => cfg'.Protocol = cfg.Protocol]_vars

\* a reconnect over tcp of a Logger whose first connect was over a local
\* socket still uses V0Local
C18_Witness ==
  /\ Connected /\ input.Protocol = ProtocolAuto /\ Len(closes) = 2
  /\ ConnectedKind = "tcp" /\ cfg.Protocol = ProtocolV0Local

\* ---------------------------------------------------------------- C19
\* C19 as stated: with Framing left on auto, once the first connect has
\* succeeded over one of the kinds of the dialer the framing is FramingNone
\* for every local-socket or datagram kind (unix, unixgram, udp, udp4, udp6,
\* unixpacket) and FramingDelimiterNUL for tcp and its variants.
C19_FramingAuto ==
  (Connected /\ Len(closes) = 1 /\ input.Framing = FramingAuto
     /\ ConnectedKind \in DialerNetworks) =>
    cfg.Framing = (IF ConnectedKind \in LocalSocketKinds \cup DatagramKinds
                     THEN FramingNone ELSE FramingDelimiterNUL)

\* ---------------------------------------------------------------- C20
\* C20: with BOMMode left on auto, while connected the BOM mode is
\* BOMModeAlways exactly when the resolved protocol is V1Net and BOMModeNever
\* otherwise; a BOMMode the caller chose is kept for every protocol.
C20_BOMAuto ==
  Connected =>
    IF input.BOMMode = BOMModeAuto
      THEN cfg.BOMMode = (IF cfg.Protocol = ProtocolV1Net
                            THEN BOMModeAlways ELSE BOMModeNever)
      ELSE cfg.BOMMode = input.BOMMode

\* an auto BOM policy under the explicit legacy network protocol, and an
\* explicit one under each other protocol
C20_Witness ==
  /\ Connected /\ input.BOMMode = BOMModeAuto
  /\ input.Protocol = ProtocolV0Net /\ cfg.BOMMode = BOMModeNever


\* ---------------------------------------------------------------- C21
\* C21 as stated: after the first successful connect Protocol, Framing and
\* BOMMode hold concrete values, and no later step (destroy, reconnect with
\* its re-run of autoconfig) changes any of the three.
C21_ResolvedOnce ==
  /\ [](output # NoValue =>
          /\ cfg.Protocol # ProtocolAuto
          /\ cfg.Framing # FramingAuto
          /\ cfg.BOMMode # BOMModeAuto)
  /\ [][output # NoValue =>
          /\ cfg'.Protocol = cfg.Protocol
          /\ cfg'.Framing = cfg.Framing
          /\ cfg'.BOMMode = cfg.BOMMode]_vars


\* ---------------------------------------------------------- formatter
\* Bytes are one-character strings; "NUL" is the byte 0x00 and "EF", "BB",
\* "BF" are the three bytes of the UTF-8 byte order mark.
MaxFmtCalls == 3
LongLen == 64

Digits == <<"0", "1", "2", "3", "4", "5", "6", "7", "8", "9">>

\* the %d verb of fmt.Appendf
RECURSIVE Decimal(_)
Decimal(n) ==
  IF n < 0 THEN <<"-">> \o Decimal(0 - n)
  ELSE IF n < 10 THEN <<Digits[n + 1]>>
  ELSE Decimal(n \div 10) \o <<Digits[(n % 10) + 1]>>

\* two instants: the reference time of TestProtocol (2021-10-11 07:25:00
\* UTC) and 2021-01-02 03:04:05.5 at offset +01:00
RefTime == "RefTime"
HalfTime == "HalfTime"
\* timestamp.Format(time.Stamp): "Jan _2 15:04:05"
FormatStamp(t) ==
  IF t = RefTime THEN <<"O", "c", "t", " ", "1", "1", " ", "0", "7", ":", "2", "5", ":", "0", "0">>
  ELSE <<"J", "a", "n", " ", " ", "2", " ", "0", "3", ":", "0", "4", ":", "0", "5">>
\* timestamp.Format(time.RFC3339Nano)
FormatRFC3339Nano(t) ==
  IF t = RefTime THEN <<"2", "0", "2", "1", "-", "1", "0", "-", "1", "1", "T", "0", "7", ":", "2", "5", ":", "0", "0", "Z">>
  ELSE <<"2", "0", "2", "1", "-", "0", "1", "-", "0", "2", "T", "0", "3", ":", "0", "4", ":", "0", "5", ".", "5", "+", "0", "1", ":", "0", "0">>

Empty == << >>
\* the field texts of encodingTests
Text ==
  [ HostName |->
      <<"H", "o", "s", "t", "N", "a", "m", "e">>,
    ProcName |->
      <<"P", "r", "o", "c", "N", "a", "m", "e">>,
    MsgID |->
      <<"M", "s", "g", "I", "D">>,
    MsgBody |->
      <<"M", "s", "g", "B", "o", "d", "y">>,
    SD |->
      <<"S", "D">> ]
LongBodyText == [j \in 1..LongLen |-> "x"]
BOM == <<"EF", "BB", "BF">>

\* formatTo, lines 118-127: an empty field becomes a hyphen
DefaultField(s) == IF s = Empty THEN <<"-">> ELSE s

\* a delimiter that is forgotten for FramingDelimiterNUL
endChar_NoNUL(f) == IF f = FramingDelimiterLF THEN <<"\n">> ELSE Empty
\* formatTo, lines 129-138
endChar(f) ==
  CASE f = FramingDelimiterNUL -> <<ZeroByte>>
    [] f = FramingDelimiterLF -> <<"\n">>
    [] OTHER -> Empty

\* a marker that is never inserted
bomPfx_None(b) == Empty
\* formatTo, lines 140-144
bomPfx(b) == IF b = BOMModeAlways THEN BOM ELSE Empty

\* a separator that is always emitted
MsgIDSep_Always(msgID) == <<" ">>
\* formatTo, lines 148-151 and 155-158: sep
MsgIDSep(msgID) == IF msgID # Empty THEN <<" ">> ELSE Empty

\* a message id that is left empty
V1MsgID_Keep(msgID) == msgID
\* formatTo, lines 162-164
V1MsgID(msgID) == IF msgID = Empty THEN <<"-">> ELSE msgID

\* formatTo, lines 146-168: what fmt.Appendf appends for the arguments a
Assemble(a) ==
  LET hostName == DefaultField(a.hostName)
      procName == DefaultField(a.procName)
      structuredData == DefaultField(a.structuredData)
  IN CASE a.p = ProtocolV0Local ->
            <<"<">> \o Decimal(a.pri) \o <<">">> \o FormatStamp(a.timestamp)
              \o <<" ">> \o procName \o <<"[">> \o Decimal(a.procID)
              \o <<"]", ":", " ">> \o bomPfx(a.b) \o a.msgID
              \o MsgIDSep(a.msgID) \o a.msgBody \o endChar(a.f)
       [] a.p = ProtocolV0Net ->
            <<"<">> \o Decimal(a.pri) \o <<">">> \o FormatStamp(a.timestamp)
              \o <<" ">> \o hostName \o <<" ">> \o procName \o <<"[">>
              \o Decimal(a.procID) \o <<"]", ":", " ">> \o bomPfx(a.b)
              \o a.msgID \o MsgIDSep(a.msgID) \o a.msgBody \o endChar(a.f)
       [] a.p = ProtocolV1Net ->
            <<"<">> \o Decimal(a.pri) \o <<">", "1", " ">>
              \o FormatRFC3339Nano(a.timestamp) \o <<" ">> \o hostName
              \o <<" ">> \o procName \o <<" ">> \o Decimal(a.procID)
              \o <<" ">> \o V1MsgID(a.msgID) \o <<" ">> \o structuredData
              \o <<" ">> \o bomPfx(a.b) \o a.msgBody \o endChar(a.f)

\* the sizes the Go allocator hands out for a small object
SizeClasses ==
  <<8, 16, 24, 32, 48, 64, 80, 96, 112, 128, 144, 160, 176, 192, 208, 224,
    240, 256, 288, 320, 352, 384, 416, 448, 480, 512, 576, 640, 704, 768,
    896, 1024, 1152, 1280, 1408, 1536, 1792, 2048, 2304, 2688, 3072, 3200,
    3456, 4096, 4864, 5376, 6144, 6528, 6784, 6912, 8192, 9472, 9728,
    10240, 10880, 12288, 13568, 14336, 16384, 18432, 19072, 20480, 21760,
    24576, 27264, 28672, 32768>>
\* the allocator's size for n bytes: the next size class, or whole pages of
\* 8192 bytes above the largest class
roundupsize(n) ==
  IF n <= SizeClasses[Len(SizeClasses)]
    THEN SizeClasses[CHOOSE j \in 1..Len(SizeClasses) :
                       /\ SizeClasses[j] >= n
                       /\ \A h \in 1..(j - 1) : SizeClasses[h] < n]
    ELSE ((n + 8191) \div 8192) * 8192
\* a capacity of 256 or more grows by a quarter plus 192 until it suffices
RECURSIVE GrowQuarter(_, _)
GrowQuarter(newcap, newLen) ==
  IF newcap >= newLen THEN newcap
  ELSE GrowQuarter(newcap + ((newcap + 768) \div 4), newLen)
\* the capacity of the array append allocates for newLen bytes when the old
\* array holds oldCap: the length asked for if it is more than twice oldCap,
\* else twice oldCap while that is small, rounded up to the allocator's size
growslice(oldCap, newLen) ==
  roundupsize(IF newLen > 2 * oldCap THEN newLen
              ELSE IF oldCap < 256 THEN 2 * oldCap
              ELSE GrowQuarter(oldCap, newLen))

\* append(buf, ...) on buf = writeBuf[0:16] over the array wb: in place when
\* the array is long enough, else into a new array whose spare bytes are zero
Appendf(wb, msg) ==
  LET need == 16 + Len(msg)
  IN IF need <= Len(wb)
       THEN [j \in 1..Len(wb) |->
               IF j > 16 /\ j <= need THEN msg[j - 16] ELSE wb[j]]
       ELSE SubSeq(wb, 1, 16) \o msg
              \o [j \in 1..(growslice(Len(wb), need) - need) |-> ZeroByte]

\* formatTo, lines 177-183: the decimal digits of lrem, written backwards
\* from buf[ix-1]; ix is the source's i and counts from 0
RECURSIVE EncodeLen(_, _, _)
EncodeLen(buf, ix, lrem) ==
  IF lrem > 0
    THEN EncodeLen([buf EXCEPT ![(ix - 1) + 1] = Digits[(lrem % 10) + 1]],
                   ix - 1, lrem \div 10)
    ELSE [buf |-> buf, ix |-> ix]

\* a write that starts at the first byte of the scratch head that was ever used
WriteFrom_FirstUsed(buf, ix) ==
  (CHOOSE j \in 1..16 : /\ buf[j] # ZeroByte
                        /\ \A h \in 1..(j - 1) : buf[h] = ZeroByte) - 1
\* formatTo, line 185: w.Write(buf[i:])
WriteFrom(buf, ix) == ix

\* formatter.formatTo on the scratch array wb: the bytes handed to w.Write
\* and the scratch array afterwards
formatToBytes(wb, a) ==
  LET msg == Assemble(a)
      need == 16 + Len(msg)
      buf == Appendf(wb, msg)
  IN IF a.f # FramingLength
       THEN [written |-> SubSeq(buf, 17, need),
             writeBuf |-> IF need <= Len(wb) THEN buf ELSE wb]
       ELSE LET e == EncodeLen(buf, 15, Len(msg))
            IN [written |-> SubSeq(e.buf, WriteFrom(e.buf, e.ix) + 1, need),
                writeBuf |-> e.buf]

\* the arguments Write passes: cfg is resolved by then, so no auto protocol
Protocols == {ProtocolV0Local, ProtocolV0Net, ProtocolV1Net}
Framings == {FramingAuto, FramingLength, FramingDelimiterNUL,
             FramingDelimiterLF, FramingNone}
BOMModes == {BOMModeAuto, BOMModeAlways, BOMModeNever}
FmtInputs ==
  [ p : Protocols, f : Framings, b : BOMModes, pri : {36, 191},
    timestamp : {RefTime, HalfTime},
    hostName : {Empty, Text.HostName}, procName : {Empty, Text.ProcName},
    procID : {12345}, msgID : {Empty, Text.MsgID},
    msgBody : {Empty, Text.MsgBody}, structuredData : {Empty, Text.SD} ]
\* fewer fields vary, and one body takes the length past two digits
SeqInputs ==
  [ p : {ProtocolV0Local, ProtocolV1Net},
    f : {FramingLength, FramingDelimiterNUL, FramingDelimiterLF, FramingNone},
    b : {BOMModeAlways}, pri : {36}, timestamp : {RefTime},
    hostName : {Text.HostName}, procName : {Text.ProcName}, procID : {12345},
    msgID : {Text.MsgID}, msgBody : {Empty, Text.MsgBody, LongBodyText},
    structuredData : {Text.SD} ]

InitFmt ==
  /\ InitLogger
  /\ cfg \in Configs
  /\ connTargets = <<"tcp">>
  /\ backoff = [MaxTries |-> 0, CurrentTry |-> 0]
  /\ input = NoValue
  /\ output = NoValue

\* one formatTo call on the formatter; calls counts them
Format(a) ==
  /\ LET r == formatToBytes(writeBuf, a)
     IN /\ output' = r.written
        /\ writeBuf' = r.writeBuf
  /\ input' = a
  /\ calls' = calls + 1
  /\ UNCHANGED <<loggerVars, connTargets, ctxDone, armsSinceOk, mutex, now,
                 pc, op, i, err, firstErr, k, wh, result, log, afterClose,
                 closeReturned, ghostRounds>>

\* a single call on a fresh formatter, for every argument combination
NextFmt == calls = 0 /\ \E a \in FmtInputs : Format(a)

SpecFmt == InitFmt /\ [][NextFmt]_vars

\* a sequence of calls on one formatter, as TestProtocol makes
NextFmtSeq ==
  calls < MaxFmtCalls /\ \E a \in SeqInputs : Format(a)

SpecFmtSeq == InitFmt /\ [][NextFmtSeq]_vars


\* ------------------------------------------------- formatter: claims
\* the end-to-end example of TestProtocol, without framing
Example ==
  [ p |-> ProtocolV1Net, f |-> FramingNone, b |-> BOMModeAlways, pri |-> 36,
    timestamp |-> RefTime, hostName |-> Text.HostName,
    procName |-> Text.ProcName, procID |-> 12345, msgID |-> Text.MsgID,
    msgBody |-> Text.MsgBody, structuredData |-> Text.SD ]
ExampleBytes ==
  <<"<", "3", "6", ">", "1", " ", "2", "0", "2", "1", "-", "1", "0", "-", "1", "1", "T", "0", "7", ":", "2", "5", ":", "0", "0", "Z", " ", "H", "o", "s", "t", "N", "a", "m", "e", " ", "P", "r", "o", "c", "N", "a", "m", "e", " ", "1", "2", "3", "4", "5", " ", "M", "s", "g", "I", "D", " ", "S", "D", " ", "EF", "BB", "BF", "M", "s", "g", "B", "o", "d", "y">>

Hyphened(s) == IF s = Empty THEN <<"-">> ELSE s
Marker(a) == IF a.b = BOMModeAlways THEN BOM ELSE Empty
\* the message id as the legacy variants fold it into the body
FoldedID(a) == IF a.msgID = Empty THEN Empty ELSE a.msgID \o <<" ">>
Formatted == output # NoValue
Unframed == Formatted /\ input.f = FramingNone
Markers == Cardinality({j \in 1..Len(output) : output[j] = "EF"})
\* the last n bytes written
Last(n) == SubSeq(output, Len(output) - n + 1, Len(output))

\* ---------------------------------------------------------------- C22
\* C22: the unframed V1Net message is '<' PRI '>1 ' timestamp, host, process,
\* pid, message id, structured data, each followed by one space, then the
\* optional BOM and the body; empty host, process, message id and structured
\* data are each a hyphen; the example of TestProtocol comes out as expected.
C22_V1Format ==
  /\ (Unframed /\ input.p = ProtocolV1Net) =>
       output = <<"<">> \o Decimal(input.pri) \o <<">", "1", " ">>
                  \o FormatRFC3339Nano(input.timestamp) \o <<" ">>
                  \o Hyphened(input.hostName) \o <<" ">>
                  \o Hyphened(input.procName) \o <<" ">>
                  \o Decimal(input.procID) \o <<" ">>
                  \o Hyphened(input.msgID) \o <<" ">>
                  \o Hyphened(input.structuredData) \o <<" ">>
                  \o Marker(input) \o input.msgBody
  /\ (Formatted /\ input = Example) => output = ExampleBytes

\* the example has been formatted, and so has a message with every
\* defaulted field empty
C22_Witness ==
  \/ input = Example /\ output = ExampleBytes
  \/ /\ Unframed /\ input.p = ProtocolV1Net /\ input.hostName = Empty
     /\ input.procName = Empty /\ input.msgID = Empty
     /\ input.structuredData = Empty

\* ---------------------------------------------------------------- C23
\* C23: the unframed legacy message is '<' PRI '>' timestamp ' ' [host ' ']
\* process '[' pid ']: ' [BOM] [message id ' '] body: the message id and its
\* one space appear only when it is non-empty, structured data never, and the
\* host field with its space only in V0Net.
C23_LegacyFormat ==
  (Unframed /\ input.p \in {ProtocolV0Local, ProtocolV0Net}) =>
     output = <<"<">> \o Decimal(input.pri) \o <<">">>
                \o FormatStamp(input.timestamp) \o <<" ">>
                \o (IF input.p = ProtocolV0Net
                      THEN Hyphened(input.hostName) \o <<" ">> ELSE Empty)
                \o Hyphened(input.procName) \o <<"[">>
                \o Decimal(input.procID) \o <<"]", ":", " ">>
                \o Marker(input) \o FoldedID(input) \o input.msgBody

\* a V0Net message without message id but with structured data
C23_Witness ==
  /\ Unframed /\ input.p = ProtocolV0Net /\ input.msgID = Empty
  /\ input.structuredData = Text.SD /\ input.b = BOMModeNever
  /\ Last(Len(Text.MsgBody) + 2) = <<":", " ">> \o Text.MsgBody

\* ---------------------------------------------------------------- C24
\* C24: with m the message assembled for the same arguments, FramingNone
\* writes m, FramingDelimiterNUL m and one 0x00 byte, FramingDelimiterLF m and
\* one 0x0A byte, FramingLength the decimal length of m without leading
\* zeros, one space and m; the example gives the count 70.
C24_Framing ==
  Formatted =>
    LET m == formatToBytes(InitWriteBuf, [input EXCEPT !.f = FramingNone]).written
    IN /\ input.f = FramingNone => output = m
       /\ input.f = FramingDelimiterNUL => output = m \o <<ZeroByte>>
       /\ input.f = FramingDelimiterLF => output = m \o <<"\n">>
       /\ input.f = FramingLength =>
            /\ output = Decimal(Len(m)) \o <<" ">> \o m
            /\ output[1] # "0"
       /\ input = [Example EXCEPT !.f = FramingLength] =>
            output = <<"7", "0", " ">> \o ExampleBytes

\* the example has been written with length framing
C24_Witness ==
  /\ input = [Example EXCEPT !.f = FramingLength]
  /\ SubSeq(output, 1, 3) = <<"7", "0", " ">>
  /\ Len(output) = 73

\* ---------------------------------------------------------------- C25
\* C25 as stated: with BOMModeAlways the marker appears once, immediately
\* before the body bytes, for every protocol and message; with BOMModeNever
\* no marker appears.
C25_BOMBeforeBody ==
  /\ (Unframed /\ input.b = BOMModeAlways) =>
       /\ Markers = 1
       /\ Last(Len(input.msgBody) + 3) = BOM \o input.msgBody
  /\ (Unframed /\ input.b = BOMModeNever) => Markers = 0

\* C25: with BOMModeAlways the marker appears once: immediately before the
\* body bytes for V1Net, and for the legacy protocols immediately before the
\* message id that is folded into the body (before the body when the id is
\* empty); with BOMModeNever no marker appears.
C25_BOMPlacement ==
  /\ (Unframed /\ input.b = BOMModeAlways) =>
       /\ Markers = 1
       /\ LET folded == IF input.p = ProtocolV1Net THEN Empty ELSE FoldedID(input)
          IN Last(Len(folded) + Len(input.msgBody) + 3)
               = BOM \o folded \o input.msgBody
  /\ (Unframed /\ input.b = BOMModeNever) => Markers = 0

\* a legacy message with a message id and the marker
C25_Witness ==
  /\ Unframed /\ input.b = BOMModeAlways /\ input.p = ProtocolV0Local
  /\ input.msgID = Text.MsgID /\ input.msgBody = Text.MsgBody
  /\ Last(Len(Text.MsgID) + Len(Text.MsgBody) + 4)
       = BOM \o Text.MsgID \o <<" ">> \o Text.MsgBody

\* ---------------------------------------------------------------- C26
\* C26: whatever calls came before on the same formatter, a call writes the
\* bytes that the same call writes on a fresh formatter.
C26_Determinism ==
  Formatted => output = formatToBytes(InitWriteBuf, input).written

\* a length-framed call with a two-digit count on a scratch buffer that still
\* holds the third digit of an earlier count
C26_Witness ==
  /\ Formatted /\ calls >= 2 /\ input.f = FramingLength
  /\ writeBuf[13] # ZeroByte /\ output[3] = " "


\* ----------------------------------------- ParseSeverity, ParseFacility
\* the Severity constants
Severity ==
  [ Emerg |-> 0,
    Alert |-> 1,
    Crit |-> 2,
    Err |-> 3,
    Warning |-> 4,
    Notice |-> 5,
    Info |-> 6,
    Debug |-> 7 ]

\* the Facility constants
Facility ==
  [ Kern |-> 0,
    User |-> 1,
    Mail |-> 2,
    Daemon |-> 3,
    Auth |-> 4,
    Syslog |-> 5,
    Lpr |-> 6,
    News |-> 7,
    UUCP |-> 8,
    Cron |-> 9,
    AuthPriv |-> 10,
    Ftp |-> 11,
    Ntp |-> 12,
    LogAudit |-> 13,
    LogAlert |-> 14,
    Clock |-> 15,
    Local0 |-> 16,
    Local1 |-> 17,
    Local2 |-> 18,
    Local3 |-> 19,
    Local4 |-> 20,
    Local5 |-> 21,
    Local6 |-> 22,
    Local7 |-> 23 ]

errBadSeverity == <<"bad severity string", 0>>
errBadFacility == <<"bad facility string", 0>>

LowerLetters == <<"a", "b", "c", "d", "e", "f", "g", "h", "i", "j", "k", "l", "m", "n", "o", "p", "q", "r", "s", "t", "u", "v", "w", "x", "y", "z">>
UpperLetters == <<"A", "B", "C", "D", "E", "F", "G", "H", "I", "J", "K", "L", "M", "N", "O", "P", "Q", "R", "S", "T", "U", "V", "W", "X", "Y", "Z">>

\* characters beyond ASCII, one element each: the upper-case letters KELVIN
\* SIGN, LATIN CAPITAL LETTER I WITH DOT ABOVE and LATIN CAPITAL LETTER E
\* WITH ACUTE, and what unicode.ToLower makes of them
UnicodeUpper == <<"U+212A", "U+0130", "U+00C9">>
UnicodeLower == <<"k", "i", "U+00E9">>
\* a byte 0xFF, which is no UTF-8, and U+FFFD
InvalidByte == "FF"
ReplacementChar == "U+FFFD"

\* a lowering that leaves every character as it is
ToLowerChar_Keep(c) == c
\* strings.ToLower on one character: unicode.ToLower of a letter, ASCII or
\* not; a byte that is no UTF-8 comes out as the replacement character
ToLowerChar(c) ==
  IF \E j \in 1..Len(UpperLetters) : UpperLetters[j] = c
    THEN LowerLetters[CHOOSE j \in 1..Len(UpperLetters) : UpperLetters[j] = c]
  ELSE IF \E j \in 1..Len(UnicodeUpper) : UnicodeUpper[j] = c
    THEN UnicodeLower[CHOOSE j \in 1..Len(UnicodeUpper) : UnicodeUpper[j] = c]
  ELSE IF c = InvalidByte THEN ReplacementChar
  ELSE c
ToLower(s) == [j \in 1..Len(s) |-> ToLowerChar(s[j])]

\* ParseSeverity: the value and the error
ParseSeverity(s) ==
  LET l == ToLower(s)
  IN CASE l \in {<<"e", "m", "e", "r", "g", "e", "n", "c", "y">>, <<"e", "m", "e", "r", "g">>} -> <<Severity.Emerg, ErrNil>>
       [] l \in {<<"a", "l", "e", "r", "t">>} -> <<Severity.Alert, ErrNil>>
       [] l \in {<<"c", "r", "i", "t", "i", "c", "a", "l">>, <<"c", "r", "i", "t">>} -> <<Severity.Crit, ErrNil>>
       [] l \in {<<"e", "r", "r", "o", "r">>, <<"e", "r", "r">>} -> <<Severity.Err, ErrNil>>
       [] l \in {<<"w", "a", "r", "n", "i", "n", "g">>, <<"w", "a", "r", "n">>} -> <<Severity.Warning, ErrNil>>
       [] l \in {<<"n", "o", "t", "i", "c", "e">>} -> <<Severity.Notice, ErrNil>>
       [] l \in {<<"i", "n", "f", "o">>} -> <<Severity.Info, ErrNil>>
       [] l \in {<<"d", "e", "b", "u", "g">>} -> <<Severity.Debug, ErrNil>>
       [] OTHER -> <<Severity.Debug, errBadSeverity>>

\* ParseFacility: the value and the error
ParseFacility(s) ==
  LET l == ToLower(s)
  IN CASE l \in {<<"k", "e", "r", "n">>, <<"k", "e", "r", "n", "e", "l">>} -> <<Facility.Kern, ErrNil>>
       [] l \in {<<"u", "s", "e", "r">>} -> <<Facility.User, ErrNil>>
       [] l \in {<<"m", "a", "i", "l">>} -> <<Facility.Mail, ErrNil>>
       [] l \in {<<"d", "a", "e", "m", "o", "n">>} -> <<Facility.Daemon, ErrNil>>
       [] l \in {<<"a", "u", "t", "h">>} -> <<Facility.Auth, ErrNil>>
       [] l \in {<<"s", "y", "s", "l", "o", "g">>} -> <<Facility.Syslog, ErrNil>>
       [] l \in {<<"l", "p", "r">>} -> <<Facility.Lpr, ErrNil>>
       [] l \in {<<"n", "e", "w", "s">>} -> <<Facility.News, ErrNil>>
       [] l \in {<<"u", "u", "c", "p">>} -> <<Facility.UUCP, ErrNil>>
       [] l \in {<<"c", "r", "o", "n">>} -> <<Facility.Cron, ErrNil>>
       [] l \in {<<"a", "u", "t", "h", "p", "r", "i", "v">>} -> <<Facility.AuthPriv, ErrNil>>
       [] l \in {<<"f", "t", "p">>} -> <<Facility.Ftp, ErrNil>>
       [] l \in {<<"n", "t", "p">>} -> <<Facility.Ntp, ErrNil>>
       [] l \in {<<"l", "o", "g", "a", "u", "d", "i", "t">>} -> <<Facility.LogAudit, ErrNil>>
       [] l \in {<<"l", "o", "g", "a", "l", "e", "r", "t">>} -> <<Facility.LogAlert, ErrNil>>
       [] l \in {<<"c", "l", "o", "c", "k">>} -> <<Facility.Clock, ErrNil>>
       [] l \in {<<"l", "o", "c", "a", "l", "0">>} -> <<Facility.Local0, ErrNil>>
       [] l \in {<<"l", "o", "c", "a", "l", "1">>} -> <<Facility.Local1, ErrNil>>
       [] l \in {<<"l", "o", "c", "a", "l", "2">>} -> <<Facility.Local2, ErrNil>>
       [] l \in {<<"l", "o", "c", "a", "l", "3">>} -> <<Facility.Local3, ErrNil>>
       [] l \in {<<"l", "o", "c", "a", "l", "4">>} -> <<Facility.Local4, ErrNil>>
       [] l \in {<<"l", "o", "c", "a", "l", "5">>} -> <<Facility.Local5, ErrNil>>
       [] l \in {<<"l", "o", "c", "a", "l", "6">>} -> <<Facility.Local6, ErrNil>>
       [] l \in {<<"l", "o", "c", "a", "l", "7">>} -> <<Facility.Local7, ErrNil>>
       [] OTHER -> <<Facility.Local7, errBadFacility>>

\* the names of the enumerations, by value (the first set names value 0)
SeverityNames ==
  << {<<"e", "m", "e", "r", "g", "e", "n", "c", "y">>, <<"e", "m", "e", "r", "g">>},
     {<<"a", "l", "e", "r", "t">>},
     {<<"c", "r", "i", "t", "i", "c", "a", "l">>, <<"c", "r", "i", "t">>},
     {<<"e", "r", "r", "o", "r">>, <<"e", "r", "r">>},
     {<<"w", "a", "r", "n", "i", "n", "g">>, <<"w", "a", "r", "n">>},
     {<<"n", "o", "t", "i", "c", "e">>},
     {<<"i", "n", "f", "o">>},
     {<<"d", "e", "b", "u", "g">>} >>
FacilityNames ==
  << {<<"k", "e", "r", "n">>, <<"k", "e", "r", "n", "e", "l">>},
     {<<"u", "s", "e", "r">>},
     {<<"m", "a", "i", "l">>},
     {<<"d", "a", "e", "m", "o", "n">>},
     {<<"a", "u", "t", "h">>},
     {<<"s", "y", "s", "l", "o", "g">>},
     {<<"l", "p", "r">>},
     {<<"n", "e", "w", "s">>},
     {<<"u", "u", "c", "p">>},
     {<<"c", "r", "o", "n">>},
     {<<"a", "u", "t", "h", "p", "r", "i", "v">>},
     {<<"f", "t", "p">>},
     {<<"n", "t", "p">>},
     {<<"l", "o", "g", "a", "u", "d", "i", "t">>},
     {<<"l", "o", "g", "a", "l", "e", "r", "t">>},
     {<<"c", "l", "o", "c", "k">>},
     {<<"l", "o", "c", "a", "l", "0">>},
     {<<"l", "o", "c", "a", "l", "1">>},
     {<<"l", "o", "c", "a", "l", "2">>},
     {<<"l", "o", "c", "a", "l", "3">>},
     {<<"l", "o", "c", "a", "l", "4">>},
     {<<"l", "o", "c", "a", "l", "5">>},
     {<<"l", "o", "c", "a", "l", "6">>},
     {<<"l", "o", "c", "a", "l", "7">>} >>

ToUpperChar(c) ==
  IF \E j \in 1..26 : LowerLetters[j] = c
    THEN UpperLetters[CHOOSE j \in 1..26 : LowerLetters[j] = c]
    ELSE c
\* a name in every letter case
CaseVariants(name) ==
  { [j \in 1..Len(name) |-> IF j \in up THEN ToUpperChar(name[j]) ELSE name[j]] :
      up \in SUBSET (1..Len(name)) }
AllNames ==
  UNION ({SeverityNames[v] : v \in 1..Len(SeverityNames)}
           \cup {FacilityNames[v] : v \in 1..Len(FacilityNames)})
\* strings that are no name: prefixes, misspellings, padded names, a number
OtherStrings ==
  { Empty, <<"w", "a", "r", "n", "i", "n", "g", "s">>,
    <<"d", "e", "b">>,
    <<"l", "o", "c", "a", "l", "8">>,
    <<"d", "e", "b", "u", "g", " ">>,
    <<" ", "i", "n", "f", "o">>,
    <<"7">>,
    <<"k", "e", "r", "n", "a", "l">>,
    <<"l", "o", "c", "a", "l">>,
    <<"e", "m", "e", "r", "g", "e", "n", "c">>,
    <<"x">> }
\* strings with characters beyond ASCII: names spelled with an upper-case
\* letter that is not ASCII, and strings that are no name
UnicodeStrings ==
  { <<"U+212A", "e", "r", "n">>, <<"U+212A", "E", "R", "N", "E", "L">>,
    <<"U+0130", "n", "f", "o">>, <<"C", "R", "U+0130", "T">>,
    <<"U+00C9", "r", "r">>, <<"U+00E9", "r", "r">>,
    <<"FF", "e", "r", "r">>, <<"e", "r", "r", "FF">> }
ParseInputs ==
  UNION {CaseVariants(name) : name \in AllNames} \cup OtherStrings
    \cup UnicodeStrings

InitParse ==
  /\ InitLogger
  /\ cfg \in Configs
  /\ connTargets = <<"tcp">>
  /\ backoff = [MaxTries |-> 0, CurrentTry |-> 0]
  /\ input \in ParseInputs
  /\ output = NoValue

\* both parsers applied to the string
Parse ==
  /\ output = NoValue
  /\ output' = <<ParseSeverity(input), ParseFacility(input)>>
  /\ UNCHANGED <<loggerVars, connTargets, ctxDone, armsSinceOk, input,
                 writeBuf, mutex, now, pc, op, i, err, firstErr, k, wh, result,
                 log, afterClose, closeReturned, calls, ghostRounds>>

NextParse == Parse

SpecParse == InitParse /\ [][NextParse]_vars

\* the upper-case letters of a lower-case letter: its ASCII capital, and for
\* k and i the Unicode capitals KELVIN SIGN and I WITH DOT ABOVE
Capitals(c) ==
  {ToUpperChar(c)} \cup (IF c = "k" THEN {"U+212A"}
                         ELSE IF c = "i" THEN {"U+0130"} ELSE {})
\* s is name in some letter case
SameLetters(s, name) ==
  /\ Len(s) = Len(name)
  /\ \A j \in 1..Len(name) : s[j] = name[j] \/ s[j] \in Capitals(name[j])
\* the values whose names s spells
Spelled(s, names) ==
  { v \in 1..Len(names) : \E name \in names[v] : SameLetters(s, name) }

\* ---------------------------------------------------------------- C27
\* C27: a listed name in any letter case parses to its value (severity in
\* [0,7], facility in [0,23]) with no error; every other string parses to an
\* error with the value Debug (7) for severities and Local7 (23) for
\* facilities. Letter case is that of Unicode: KELVIN SIGN is a capital of k
\* and I WITH DOT ABOVE a capital of i.
C27_ParseTotal ==
  output # NoValue =>
    /\ \A v \in Spelled(input, SeverityNames) : output[1] = <<v - 1, ErrNil>>
    /\ Spelled(input, SeverityNames) = {} => output[1] = <<7, errBadSeverity>>
    /\ \A v \in Spelled(input, FacilityNames) : output[2] = <<v - 1, ErrNil>>
    /\ Spelled(input, FacilityNames) = {} => output[2] = <<23, errBadFacility>>
    /\ output[1][1] \in 0..7
    /\ output[2][1] \in 0..23

\* "WaRN" is a severity and no facility; "LOCAL7" is a facility and no severity
C27_Witness ==
  \/ /\ input = <<"W", "a", "R", "N">>
     /\ output = << <<4, ErrNil>>, <<23, errBadFacility>> >>
  \/ /\ input = <<"L", "O", "C", "A", "L", "7">>
     /\ output = << <<7, errBadSeverity>>, <<23, ErrNil>> >>


\* --------------------------------------------- determineConnTargets
\* The unix build. Networks are strings; addresses are byte sequences; a
\* target is the pair <<network, address>>.
MaxResolves == 2

DefaultPort == 514
errNoAddress == <<"no syslog address specified", 0>>
errBadAddress == <<"gnet.HasPort error", 0>>

\* the standard paths of the system daemon, in the order they are tried
StandardPaths ==
  << <<"/", "d", "e", "v", "/", "l", "o", "g">>,
     <<"/", "v", "a", "r", "/", "r", "u", "n", "/", "s", "y", "s", "l", "o", "g">>,
     <<"/", "v", "a", "r", "/", "r", "u", "n", "/", "l", "o", "g">> >>
\* the local-socket networks, in the order they are tried
LocalNetworks == <<"unixgram", "unix">>

\* strings.HasPrefix(address, "/")
IsPath(address) == address # Empty /\ address[1] = "/"

RECURSIVE Flatten(_)
Flatten(ss) == IF ss = << >> THEN << >> ELSE Head(ss) \o Flatten(Tail(ss))

\* standard paths that are tried in the opposite order
TargetsOf_Reversed(n, address) ==
  IF address # Empty THEN << <<n, address>> >>
  ELSE [j \in 1..Len(StandardPaths) |-> <<n, StandardPaths[Len(StandardPaths) + 1 - j]>>]
\* determineOSSpecificConnTargets, lines 15-21: the targets of one network
TargetsOf(n, address) ==
  IF address # Empty THEN << <<n, address>> >>
  ELSE [j \in 1..Len(StandardPaths) |-> <<n, StandardPaths[j]>>]

\* determineOSSpecificConnTargets: the targets, or nil (here << >>) when
\* autodetection does not apply
determineOSSpecificConnTargets(network, address) ==
  IF /\ network \in {"", "unix", "unixgram"}
     /\ (address = Empty \/ IsPath(address))
    THEN Flatten([j \in 1..Len(LocalNetworks) |->
                    IF network # "" /\ LocalNetworks[j] # network
                      THEN << >>
                      ELSE TargetsOf(LocalNetworks[j], address)])
    ELSE << >>

Colons(a) == Cardinality({j \in 1..Len(a) : a[j] = ":"})
\* gnet.HasPort, as net.SplitHostPort reads an address: "yes" with a port,
\* "no" without one, "error" for an address it cannot split
HasPort(address) ==
  IF address # Empty /\ address[1] = "["
    THEN IF address[Len(address)] = "]" THEN "no"
         ELSE IF \E j \in 1..(Len(address) - 1) :
                   address[j] = "]" /\ address[j + 1] = ":"
                   /\ \A h \in (j + 2)..Len(address) : address[h] # ":"
                THEN "yes" ELSE "error"
    ELSE CASE Colons(address) = 0 -> "no"
           [] Colons(address) = 1 -> "yes"
           [] OTHER -> "error"

\* determineConnTargets, lines 244-246
DefaultNetwork(network) == IF network = "" THEN "udp" ELSE network

\* determineConnTargets, lines 253-255, for an address HasPort can read
WithPort(address) ==
  IF HasPort(address) = "no"
    THEN address \o <<":">> \o Decimal(DefaultPort)
    ELSE address

\* determineConnTargets: the target list and the error
determineConnTargets(network, address) ==
  LET os == determineOSSpecificConnTargets(network, address)
  IN IF os # << >> THEN [connTargets |-> os, err |-> ErrNil]
     ELSE IF address = Empty
       THEN [connTargets |-> << >>, err |-> errNoAddress]
     ELSE IF HasPort(address) = "error"
       THEN [connTargets |-> << >>, err |-> errBadAddress]
     ELSE [connTargets |-> << <<DefaultNetwork(network), WithPort(address)>> >>,
           err |-> ErrNil]

\* Config.Network and Config.Address as a caller may set them
CfgNetworks == {"", "unix", "unixgram", "unixpacket", "udp", "udp4", "tcp", "tcp6"}
\* values of Config.Address: host, host:514, host:601, [::1], [::1]:514, a:b:c,
\* /run/log.sock, log.sock
Address ==
  [ HostOnly |->
      <<"h", "o", "s", "t">>,
    HostPort514 |->
      <<"h", "o", "s", "t", ":", "5", "1", "4">>,
    HostPort601 |->
      <<"h", "o", "s", "t", ":", "6", "0", "1">>,
    V6Only |->
      <<"[", ":", ":", "1", "]">>,
    V6Port |->
      <<"[", ":", ":", "1", "]", ":", "5", "1", "4">>,
    ManyColons |->
      <<"a", ":", "b", ":", "c">>,
    CustomPath |->
      <<"/", "r", "u", "n", "/", "l", "o", "g", ".", "s", "o", "c", "k">>,
    RelativePath |->
      <<"l", "o", "g", ".", "s", "o", "c", "k">> ]
CfgAddresses ==
  {Empty, StandardPaths[1], Address.CustomPath, Address.RelativePath,
   Address.HostOnly,
   Address.HostPort514, Address.HostPort601, Address.V6Only, Address.V6Port,
   Address.ManyColons}

InitTargets ==
  /\ InitLogger
  /\ cfg \in Configs
  /\ connTargets = <<"tcp">>
  /\ backoff = [MaxTries |-> 0, CurrentTry |-> 0]
  /\ input \in CfgNetworks \X CfgAddresses
  /\ output = NoValue

\* New, lines 216-227, for a Config with this Network and Address: the
\* targets, the error and whether a Logger is returned; calls counts the
\* invocations
New ==
  /\ calls < MaxResolves
  /\ LET r == determineConnTargets(input[1], input[2])
     IN output' = [connTargets |-> r.connTargets, err |-> r.err,
                   logger |-> (r.err = ErrNil)]
  /\ calls' = calls + 1
  /\ UNCHANGED <<loggerVars, connTargets, ctxDone, armsSinceOk, input,
                 writeBuf, mutex, now, pc, op, i, err, firstErr, k, wh, result,
                 log, afterClose, closeReturned, ghostRounds>>

NextTargets == New

SpecTargets == InitTargets /\ [][NextTargets]_vars

\* ---------------------------------------------------- targets: claims
Resolved == output # NoValue
\* local-socket autodetection applies to the input
Autodetect ==
  /\ input[1] \in {"", "unix", "unixgram"}
  /\ (input[2] = Empty \/ input[2][1] = "/")
\* ---------------------------------------------------------------- C29
\* C29: when autodetection applies, the targets are, for unixgram and then
\* unix unless a requested network excludes it, the supplied path or else
\* /dev/log, /var/run/syslog, /var/run/log in this order; a second invocation
\* gives the same list.
C29_Autodetect ==
  /\ [](( Resolved /\ Autodetect ) =>
         LET of(n) == IF input[1] \in {"", n}
                        THEN IF input[2] # Empty
                               THEN << <<n, input[2]>> >>
                               ELSE << <<n, <<"/", "d", "e", "v", "/", "l", "o", "g">>>>,
                                       <<n, <<"/", "v", "a", "r", "/", "r", "u", "n", "/", "s", "y", "s", "l", "o", "g">>>>,
                                       <<n, <<"/", "v", "a", "r", "/", "r", "u", "n", "/", "l", "o", "g">>>> >>
                        ELSE << >>
         IN /\ output.connTargets = of("unixgram") \o of("unix")
            /\ output.err = ErrNil /\ output.logger)
  /\ [][Resolved => output' = output]_vars

\* nothing was configured: six targets, resolved twice
C29_Witness ==
  /\ Resolved /\ input = <<"", Empty>> /\ calls = 2
  /\ Len(output.connTargets) = 6
  /\ output.connTargets[4] = <<"unix", StandardPaths[1]>>

\* ---------------------------------------------------------------- C30
\* C30 as stated: with Network and Address both empty the first candidate is
\* a unix target; with Network empty and a path as Address it is a unixgram
\* target; with Network empty and another Address it is a udp target.
C30_DefaultNetwork ==
  (Resolved /\ input[1] = "" /\ output.err = ErrNil) =>
    output.connTargets[1][1] =
      (IF input[2] = Empty THEN "unix"
       ELSE IF input[2][1] = "/" THEN "unixgram" ELSE "udp")

\* ----------------------------------------------------------------- C31
\* time.Now() of lines 341 and 345 with a clock that keeps running while a
\* backoff window is open
Clock ==
  /\ now < MaxTime \/ InBackoff
  /\ now' = now + 1
  /\ UNCHANGED <<loggerVars, restVars, mutex, pc, op, i, err, firstErr, k,
                 wh, result, log, afterClose, closeReturned, calls, ghostRounds>>

\* the steps of a call that was issued: a running goroutine goes on running
Step(p) ==
  \/ Lock(p) \/ ensureConn(p) \/ Arm(p) \/ DialOk(p) \/ DialFail(p)
  \/ formatTo(p) \/ WriteOk(p) \/ WriteFail(p) \/ destroyConn(p)
  \/ Unlock(p) \/ CloseDestroy(p) \/ CloseReturn(p)

\* the calls are issued one after another by one caller
LiveCalls == 2
CallInTurn(p) == p = 1 /\ calls < LiveCalls /\ Call(p)

NextLive ==
  \/ \E p \in Procs : CallInTurn(p)
  \/ \E p \in Procs : Lock(p)
  \/ \E p \in Procs : ensureConn(p)
  \/ \E p \in Procs : Arm(p)
  \/ \E p \in Procs : DialOk(p)
  \/ \E p \in Procs : DialFail(p)
  \/ \E p \in Procs : formatTo(p)
  \/ \E p \in Procs : WriteOk(p)
  \/ \E p \in Procs : WriteFail(p)
  \/ \E p \in Procs : destroyConn(p)
  \/ \E p \in Procs : Unlock(p)
  \/ \E p \in Procs : CloseDestroy(p)
  \/ \E p \in Procs : CloseReturn(p)
  \/ Clock

\* the clock advances and a call that was issued runs to its return
\* a Logger with one network candidate
InitLive == Init /\ connTargets = <<"tcp">>

SpecLive ==
  /\ InitLive
  /\ [][NextLive]_vars
  /\ WF_vars(Clock)
  /\ \A p \in Procs : WF_vars(Step(p))

\* the initial connection check of a Write finds the Logger Disconnected,
\* not closed and the not-before time unset or reached
WindowOver(p) ==
  /\ pc[p] = "ensure" /\ i[p] < 0
  /\ w = 0 /\ ~closed
  /\ reconnectStartTime = 0 \/ now >= reconnectStartTime

\* C31: an open backoff window eventually ends; a Write whose initial
\* connection check runs on a Disconnected, not closed Logger with the
\* not-before time unset (a fresh Logger) or reached leaves that check only
\* into a dial round, never with the Backoff error, and that round dials the
\* first candidate target.
C31_WindowEnds ==
  /\ InBackoff ~> ~InBackoff
  /\ \A p \in Procs : WindowOver(p) ~> (pc[p] = "dial" /\ k[p] = 1 /\ i[p] < 0)
  /\ [][\A p \in Procs :
          (WindowOver(p) /\ pc'[p] # pc[p]) =>
             (pc'[p] = "arm" /\ result'[p] # errReconnectBackoff)]_vars

\* a Write issued after an earlier round's window has ended is dialling the
\* first candidate
C31_Witness ==
  \E p \in Procs :
    /\ pc[p] = "dial" /\ k[p] = 1 /\ i[p] < 0
    /\ Len(log[p]) = 1 /\ log[p][1][1] = "arm"
    /\ log[p][1][4] # 0 /\ log[p][1][2] >= log[p][1][4]
    /\ w = 0 /\ ~closed

\* ---------------------------------------------------------------- C32
ByteStreamKinds == {"tcp", "tcp4", "tcp6"}
NoFramingKinds == {"unix", "unixgram", "udp"}

\* C32: every connect over unix, unixgram or udp leaves the framing none
\* whatever was configured; every connect over a byte-stream kind keeps an
\* explicit framing, none included, and turns auto into the NUL delimiter,
\* so that after the first connect over a byte-stream kind the framing the
\* caller configured is the one in use.
C32_ExplicitFraming ==
  /\ [][(w = 0 /\ w' # 0) =>
          /\ ConnectedKind' \in NoFramingKinds => cfg'.Framing = FramingNone
          /\ ConnectedKind' \in ByteStreamKinds =>
               cfg'.Framing = (IF cfg.Framing = FramingAuto
                                 THEN FramingDelimiterNUL ELSE cfg.Framing)]_vars
  /\ []((Connected /\ Len(closes) = 1 /\ ConnectedKind \in ByteStreamKinds) =>
          cfg.Framing = (IF input.Framing = FramingAuto
                           THEN FramingDelimiterNUL ELSE input.Framing))

\* an explicit length framing is replaced by none when the handle of a
\* DialFunc reports a unix socket under a network name of the caller's
C32_Witness ==
  /\ Connected /\ output = <<"unix+tls", "unix">>
  /\ input.Framing = FramingLength /\ cfg.Framing = FramingNone

\* ---------------------------------------------------------------- C33
\* C33 as stated: for every non-empty address given with the kind unix or
\* unixgram, each resolved target of kind unix or unixgram has the address as
\* the caller gave it, or one of the standard socket paths; no port is
\* appended, whether or not the address starts with "/".
C33_NoPortOnLocalSocket ==
  (Resolved /\ input[1] \in {"unix", "unixgram"} /\ input[2] # Empty) =>
    \A j \in 1..Len(output.connTargets) :
      output.connTargets[j][1] \in {"unix", "unixgram"} =>
        \/ output.connTargets[j][2] = input[2]
        \/ \E h \in 1..Len(StandardPaths) :
             output.connTargets[j][2] = StandardPaths[h]

\* ---------------------------------------------------------------- C34
\* C34: when Write returns (result set, lock not yet released) the result and
\* the connection state agree: with success the Logger holds a handle that is
\* open, with any error it holds none.
C34_ResultMatchesState ==
  \A p \in Procs :
    WriteReturning(p) =>
      IF result[p] = ErrNil
        THEN w # 0 /\ w \in OpenHandles
        ELSE w = 0

\* a Write returns the error of its second transport write, both handles
\* closed and none held
C34_Witness ==
  \E p \in Procs :
    /\ WriteReturning(p) /\ result[p] = WriteErr(2)
    /\ w = 0 /\ Len(closes) >= 2 /\ OpenHandles = {}

\* ---------------------------------------------------------------- C35
ConnectErrors == { DialErr(n) : n \in 1..Len(connTargets) }

\* C35: a Write that returns success made, in that call, a transport write
\* that succeeded, and it was the call's last one; a Write that returns the
\* Closed, the Backoff or a connect error started no transport write at all.
C35_SuccessMeansWritten ==
  \A p \in Procs :
    WriteReturning(p) =>
      /\ result[p] = ErrNil =>
           LET ws == WriteResults(p)
           IN /\ Len(GoodWrites(p)) = 1
              /\ ws[Len(ws)][3] = 1
              /\ ws[Len(ws)][2] = w
      /\ result[p] \in {errClosed, errReconnectBackoff} \cup ConnectErrors =>
           Count(p, "wbegin") = 0

\* a Write returns success after its first transport write failed and the
\* retried one succeeded
C35_Witness ==
  \E p \in Procs :
    /\ WriteReturning(p) /\ result[p] = ErrNil
    /\ Len(FailedWrites(p)) = 1 /\ Len(GoodWrites(p)) = 1

\* ---------------------------------------------------------------- C36
ConcreteProtocols == {ProtocolV0Local, ProtocolV0Net, ProtocolV1Net}

\* C36: whenever Write is about to call the formatter, or the formatter is
\* writing, the Logger holds a handle, that handle is open, the protocol
\* handed over is one of the three concrete variants and not auto, and the
\* target list is not empty.
C36_FormatterPreconditions ==
  \A p \in Procs :
    pc[p] \in {"fmt", "fmtret"} =>
      /\ w # 0 /\ w \in OpenHandles
      /\ cfg.Protocol \in ConcreteProtocols
      /\ cfg.Protocol # ProtocolAuto
      /\ Len(connTargets) >= 1

\* the formatter is called for the retry, on the handle dialled in this
\* call's reconnect, with the protocol resolved for a local socket
C36_Witness ==
  \E p \in Procs :
    /\ pc[p] = "fmt" /\ i[p] = 1 /\ w = 2
    /\ cfg.Protocol = ProtocolV0Local /\ connTargets = <<"unixgram", "unix">>

\* ---------------------------------------------------------------- C37
\* the Logger state the claim lists
Frame == <<reconnectStartTime, backoff, closed, w, closes, connTargets, cfg>>
\* Write is returning the Closed or the Backoff error
Rejected(p) ==
  WriteReturning(p) /\ result[p] \in {errClosed, errReconnectBackoff}

\* C37: a Write that returns the Closed or the Backoff error changed nothing
\* of the Logger: it made no step other than taking the lock and the
\* connection check (no dial round, no transport write, no destroy), every
\* step of a Write that changes the not-before time, the backoff policy, the
\* closed flag, the handle, the target list or the resolved configuration is
\* one of those recorded steps, and while the Write holds the lock no other
\* caller changes them.
C37_RejectedWriteFrame ==
  /\ [](\A p \in Procs : Rejected(p) => (log[p] = << >> /\ i[p] < 0))
  /\ [][\A p \in Procs :
          (op[p] = "Write" /\ pc'[p] # pc[p] /\ Frame' # Frame) =>
             Len(log'[p]) = Len(log[p]) + 1]_vars
  /\ [][\A p \in Procs :
          (op[p] = "Write" /\ pc[p] \in WriteCS /\ Frame' # Frame) =>
             pc'[p] # pc[p]]_vars

\* a Write is rejected inside the backoff window; the window, the consumed
\* try of the policy and the closed handle of the earlier round are as they
\* were
C37_Witness ==
  \E p \in Procs :
    /\ Rejected(p) /\ result[p] = errReconnectBackoff
    /\ reconnectStartTime > now /\ backoff.CurrentTry = 1
    /\ Len(closes) = 1 /\ w = 0 /\ log[p] = << >>

\* ---------------------------------------------------------------- C38
\* C38: the backoff policy changes only in a step of the Write that holds the
\* lock, and only where a dial round starts (NextDelay) or a transport write
\* has succeeded (Reset); every dial round that starts counts as one more
\* round since the last successful transport write and every successful
\* transport write sets that count to zero; and in every state the tries the
\* policy has counted since its last reset are the dial rounds started since
\* the last successful transport write (up to MaxTries, where a policy with a
\* limit stops counting).
C38_BackoffAccounting ==
  /\ [](backoff.CurrentTry =
          (IF backoff.MaxTries = 0 THEN armsSinceOk
           ELSE Min(armsSinceOk, backoff.MaxTries)))
  /\ [][backoff' # backoff =>
          \E p \in Procs :
            /\ mutex = p /\ mutex' = p /\ op[p] = "Write"
            /\ \/ pc[p] = "arm" /\ pc'[p] = "dial"
               \/ pc[p] = "fmtret" /\ result'[p] = ErrNil /\ pc'[p] = "unlock"]_vars
  /\ [][\A p \in Procs :
          /\ (pc[p] = "arm" /\ pc'[p] = "dial") =>
               (armsSinceOk' = armsSinceOk + 1 /\ Count(p, "arm")' = Count(p, "arm") + 1)
          /\ (pc[p] = "fmtret" /\ pc'[p] = "unlock") =>
               (armsSinceOk' = 0 /\ backoff'.CurrentTry = 0)]_vars

\* two dial rounds were started since the policy was last reset, the first
\* of which had connected
C38_Witness ==
  /\ armsSinceOk = 2 /\ backoff.MaxTries = 0 /\ backoff.CurrentTry = 2
  /\ prevRound # <<0, 0>> /\ Len(closes) >= 1

\* ---------------------------------------------------------------- C39
\* the end of the window of the latest dial round: started at t with the
\* consumed delay d, that is t + d
WindowEnd == lastRound[1] + lastRound[2]

\* C39: the not-before time never moves back and is left alone by a
\* successful dial and by a transport write, successful or not; a dial round
\* starts only at or after the end of the window of the round before it; so
\* a connection check made on a Disconnected Logger before that end, in the
\* retry of a failing Write or in a later Write, and whether or not a
\* transport write succeeded and reset the policy in between, leaves Write
\* with an error and without a dial.
C39_WindowSurvivesSuccess ==
  /\ [][/\ reconnectStartTime' >= reconnectStartTime
        /\ \A p \in Procs :
             (pc[p] \in {"dial", "fmt", "fmtret"} /\ pc'[p] # pc[p]) =>
                reconnectStartTime' = reconnectStartTime]_vars
  /\ [](\A p \in Procs : pc[p] = "arm" => now >= WindowEnd)
  /\ [][\A p \in Procs :
          (pc[p] = "ensure" /\ w = 0 /\ now < WindowEnd /\ pc'[p] # pc[p]) =>
             /\ pc'[p] = "unlock" /\ result'[p] # ErrNil
             /\ log'[p] = log[p]]_vars

\* the connection of the latest round had a successful transport write, was
\* lost in a later Write before the window's end, and that Write returns its
\* write error without a dial
C39_Witness ==
  \E p \in Procs :
    /\ WriteReturning(p) /\ result[p] = WriteErr(1)
    /\ armsSinceOk = 0 /\ backoff.CurrentTry = 0
    /\ Count(p, "arm") = 0 /\ Count(p, "dial") = 0 /\ Count(p, "close") = 1
    /\ now < WindowEnd /\ reconnectStartTime = WindowEnd

====
